---- MODULE Spec2Model ----
(***************************************************************************)
(* castbot: the streaming/session subsystem.                               *)
(*   Http           src/castbot/http.py   (ranged /stream endpoint, the    *)
(*                  four token-keyed maps, AsyncDebounce, idle handler)    *)
(*   PlayingVideo   src/castbot/video.py  (play/stop/pause/resume/close)   *)
(*   PlayingVideos  src/castbot/video.py  (session manager)                *)
(* One asyncio event loop: every action below is the code that runs        *)
(* between two suspension points (await) of one coroutine.                 *)
(***************************************************************************)
EXTENDS Integers, Sequences, FiniteSets, TLC

\* ---------------------------------------------------------------- bounds
\* the playback sessions (tokens), the concurrent /stream requests (each on
\* its own connection), the value at which the call counters saturate, the
\* size of the streamed document in bytes
MaxTokens == 1
MaxReq == 1
MaxCalls == 2
Size == 3

\* ------------------------------------------------------ program constants
\* Http._block_size (http.py:98), scaled down
BlockSize == 2

Tokens == 1..MaxTokens
Reqs == 1..MaxReq
NoDevice == "none"
Devices == {"cast", "vlc"}
\* the first byte a request asks for: no Range header, or "bytes=0-"
RangeStarts == {0}

\* hasattr(device, "pause") / hasattr(device, "resume")
HasPause(d) == d = "cast"
HasResume(d) == d = "cast"
\* whether `await device.on_close(token)` reaches a real suspension point
OnCloseSuspends(d) == d = "cast"

\* tokens .. stream_transports: the four dicts of Http, keyed by token
\* playing_videos, playing_device, control_message: the registered
\*   PlayingVideo objects, their device, the text of their control message
\* op: the button click being handled for each session; req, transport: the
\*   /stream request of each slot and its connection
\* close_calls, on_close_calls: how often close() was started and on_close
\*   invoked since the token was admitted; reclaimed: the close() of a
\*   reclamation has returned and play() has not admitted the token since;
\*   written_blocks: the offsets of the blocks written for the token since
\*   it was admitted (empty while it is not admitted)
VARIABLES
    tokens,
    downloaded_blocks,
    stream_debounce,
    stream_transports,
    playing_videos,
    playing_device,
    control_message,
    op,
    req,
    transport,
    close_calls,
    on_close_calls,
    reclaimed,
    written_blocks

\* The classes and functions that are also studied on their own, each under
\* a specification of its own that leaves the variables above alone:
\* async_debounce: one AsyncDebounce object driven through its methods
\* range_request:  one ranged GET /stream on an admitted token
\* token_string:   one LocalToken, printed and read back
\* responses:      the /stream responses that pump one document for one
\*                 token at the same time
\* device_finders: one DeviceFinderCollection during refresh_all_devices
\* web_devices:    the registry of one WebDeviceFinder and its devices
\* upnp_notify:    one UpnpNotifyServer and the device it was given by play()
\* callback_data:  one callback string, generated and parsed
\* session_table:  one PlayingVideos object: its sessions and user defaults
\* admission:      the admitted-token dict of one Http object and one request
\* block_pump:     one block pump fed by a source of short blocks
\* playing_video:  one PlayingVideo object during play, select_device, close
VARIABLES
    async_debounce,
    range_request,
    token_string,
    responses,
    device_finders,
    web_devices,
    upnp_notify,
    callback_data,
    session_table,
    admission,
    block_pump,
    playing_video

isolated == <<async_debounce, range_request, token_string, responses,
              device_finders, web_devices, upnp_notify, callback_data,
              session_table, admission, block_pump, playing_video>>

mainVars == <<tokens, downloaded_blocks, stream_debounce, stream_transports,
              playing_videos, playing_device, control_message,
              op, req, transport, close_calls, on_close_calls, reclaimed,
              written_blocks>>

deviceVars == <<device_finders, web_devices, upnp_notify, callback_data>>

laterVars == <<session_table, admission, block_pump, playing_video>>

vars == <<mainVars, isolated>>

httpMaps == <<tokens, downloaded_blocks, stream_debounce, stream_transports>>
sessionVars == <<playing_videos, playing_device, control_message>>
history == <<close_calls, on_close_calls, reclaimed, written_blocks>>

\* ------------------------------------------------------------ dict helpers
Has(d, k) == k \in DOMAIN d
Del(d, k) == [x \in (DOMAIN d) \ {k} |-> d[x]]
Put(d, k, v) == [x \in (DOMAIN d) \cup {k} |-> IF x = k THEN v ELSE d[x]]
EmptyMap == [x \in {} |-> 0]

Min(a, b) == IF a < b THEN a ELSE b

\* the call counters saturate at MaxCalls
Count(n) == Min(n + 1, MaxCalls)

\* --------------------------------------------------------- control message
NoPct == -1
Message(kind, dev, pct) == [kind |-> kind, dev |-> dev, pct |-> pct]

send_stopped_control_message(dev, remaining) ==
    IF remaining = NoPct \/ remaining = 0
    THEN Message("Controller", dev, NoPct)
    ELSE Message("Closed", dev, remaining)

send_playing_control_message(dev) == Message("Playing", dev, NoPct)
send_paused_control_message(dev) == Message("Paused", dev, NoPct)
send_select_device_message == Message("Select", NoDevice, NoPct)

\* the session state is what the control message renders
State(t) ==
    CASE control_message[t].kind = "Playing" -> "Playing"
      [] control_message[t].kind = "Paused" -> "Paused"
      [] OTHER -> "Stopped"

\* ------------------------------------------------------------------- Init
NoMessage == Message("none", NoDevice, NoPct)
IdleOp == [kind |-> "none", pc |-> "idle", cmds |-> <<>>, result |-> "none",
           msg |-> NoMessage]
NewReq == [pc |-> "idle", token |-> 0, offset |-> 0, skip |-> 0, resp |-> 0]

\* the isolated objects are not used by the program's specification
Unused == [unused |-> TRUE]

InitMain ==
    /\ tokens = {}
    /\ downloaded_blocks = EmptyMap
    /\ stream_debounce = EmptyMap
    /\ stream_transports = EmptyMap
    /\ playing_videos = Tokens
    /\ playing_device = [t \in Tokens |-> NoDevice]
    /\ control_message = [t \in Tokens |-> Message("Controller", NoDevice, NoPct)]
    /\ op = [t \in Tokens |-> IdleOp]
    /\ req = [r \in Reqs |-> NewReq]
    /\ transport = [r \in Reqs |-> "gone"]
    /\ close_calls = [t \in Tokens |-> 0]
    /\ on_close_calls = [t \in Tokens |-> 0]
    /\ reclaimed = [t \in Tokens |-> FALSE]
    /\ written_blocks = [t \in Tokens |-> {}]

Init ==
    /\ InitMain
    /\ session_table = Unused
    /\ admission = Unused
    /\ block_pump = Unused
    /\ playing_video = Unused
    /\ device_finders = Unused
    /\ web_devices = Unused
    /\ upnp_notify = Unused
    /\ callback_data = Unused
    /\ async_debounce = Unused
    /\ range_request = Unused
    /\ token_string = Unused
    /\ responses = Unused


\* ------------------------------------------------------------ AsyncDebounce
\* one AsyncDebounce object: the remembered _args and the state of _task.
\* task: "sleeping"  the task is in asyncio.sleep(timeout), created by
\*                   update_args
\*       "rearmed"   the same, created by reschedule (told apart only to
\*                   observe the re-arming)
\*       "close_msg" the handler runs, suspended in close() at the message edit
\*       "close_dev" the handler runs, suspended in close() at device.on_close
\*       "failed"    the task ended with an exception (task.done() is true)
\* remain/device are the locals the suspended handler holds.
Sleeping(args) ==
    [args |-> args, task |-> "sleeping", remain |-> 0, device |-> NoDevice]

TaskDone(d) == d.task = "failed"

\* the task of d ended with an exception
Failed(d) == [args |-> d.args, task |-> "failed", remain |-> 0, device |-> NoDevice]

\* AsyncDebounce._run: a fresh task sleeping on the remembered args
run(d) == Sleeping(d.args)

\* AsyncDebounce.update_args: a done task blocks the update; otherwise the
\* current task is cancelled (also when it is the handler suspended inside
\* close()) and a fresh one is scheduled with the new args.
update_args(d, args) ==
    IF TaskDone(d) THEN d ELSE run([d EXCEPT !.args = args])

\* AsyncDebounce.reschedule
reschedule(d) == [run(d) EXCEPT !.task = "rearmed"]

\* the task is in asyncio.sleep: its timer can expire
InSleep(d) == d.task \in {"sleeping", "rearmed"}

\* ------------------------------------------------------------------- Http
add_remote_token(t) == tokens \cup {t}

\* an admission check that lets every token through
check_local_token_admits_all(t) == TRUE

check_local_token(t) == t \in tokens

\* A decimal string is the sequence of its digits: str(n) of the client
\* that writes the header, int(s) of the server that reads it.
RECURSIVE str_int(_)
str_int(n) ==
    IF n < 10 THEN <<n>> ELSE Append(str_int(n \div 10), n % 10)

RECURSIVE int_str(_)
int_str(s) ==
    IF Len(s) = 0 THEN 0
    ELSE 10 * int_str(SubSeq(s, 1, Len(s) - 1)) + s[Len(s)]

\* A path component of /stream/{message_id}/{token} is the sequence of its
\* characters: 0..9 the decimal digits, 10..15 the letters a..f.
\* a test that lets hexadecimal letters through
isdigit_or_hex(s) == Len(s) > 0

\* str.isdigit()
isdigit(s) == Len(s) > 0 /\ \A i \in 1..Len(s) : s[i] \in 0..9

\* "deadbeef"
DeadBeef == <<13, 14, 10, 13, 11, 14, 14, 15>>

\* the paths a client asks for the token t: the one add_remote_token gave
\* out (both components decimal), and two with a component that is not
Paths(t) ==
    {<<str_int(t), str_int(t)>>, <<str_int(t), DeadBeef>>, <<DeadBeef, str_int(t)>>}

\* http.py:223-231: both path components pass isdigit()
PathDigits(path) == isdigit(path[1]) /\ isdigit(path[2])

\* max_size is None: the header names no end
NoCap == -1

\* A Range header: its unit and the two digit strings around the dash, each
\* possibly empty; "bytes=A-" and "bytes=A-B" as a client writes them.
NoRange == [unit |-> "absent", first |-> <<>>, last |-> <<>>]

RangeHeader(first, last) ==
    [unit |-> "bytes",
     first |-> IF first = NoCap THEN <<>> ELSE str_int(first),
     last |-> IF last = NoCap THEN <<>> ELSE str_int(last)]

ValueError == <<"ValueError">>

\* a parse that does not align the offset
parse_http_range_unaligned(http_range, block_size) ==
    IF http_range.unit # "bytes" \/ Len(http_range.first) = 0
    THEN ValueError
    ELSE <<int_str(http_range.first), 0,
           IF Len(http_range.last) > 0 THEN int_str(http_range.last) ELSE NoCap>>

\* parse_http_range: <<safe_offset, data_to_skip, max_size>>, or ValueError
\* when _RANGE_REGEX ("bytes=([0-9]+)-([0-9]+)?") finds no match
parse_http_range(http_range, block_size) ==
    IF http_range.unit # "bytes" \/ Len(http_range.first) = 0
    THEN ValueError
    ELSE LET max_size == IF Len(http_range.last) > 0
                         THEN int_str(http_range.last) ELSE NoCap
             offset == int_str(http_range.first)
             safe_offset == (offset \div block_size) * block_size
             data_to_skip == offset - safe_offset
         IN <<safe_offset, data_to_skip, max_size>>

\* Http._feed_timeout: setdefault + update_args
feed_timeout(t, size) ==
    IF Has(stream_debounce, t)
    THEN Put(stream_debounce, t, update_args(stream_debounce[t], <<t, size>>))
    ELSE Put(stream_debounce, t, Sleeping(<<t, size>>))

\* Http._feed_downloaded_blocks
feed_downloaded_blocks(block_id, t) ==
    IF Has(downloaded_blocks, t)
    THEN Put(downloaded_blocks, t, downloaded_blocks[t] \cup {block_id})
    ELSE Put(downloaded_blocks, t, {block_id})

\* Http._feed_stream_transport
feed_stream_transport(t, tr) ==
    IF Has(stream_transports, t)
    THEN Put(stream_transports, t, stream_transports[t] \cup {tr})
    ELSE Put(stream_transports, t, {tr})

\* Http._get_stream_transports
get_stream_transports(t) ==
    IF Has(stream_transports, t) THEN stream_transports[t] ELSE {}

is_closing(tr) == transport[tr] # "open"

\* a guard that does not look at the registered transports
AllClosing_ignores_transports(t) == TRUE

\* the guard of the reclaim branch of Http._timeout_handler
AllClosing(t) == \A tr \in get_stream_transports(t) : is_closing(tr)

\* remaining blocks, as a whole percentage (remain_blocks / blocks * 100)
RemainPct(t, size) ==
    LET blocks == (size \div BlockSize) + 1
        remain_blocks == IF Has(downloaded_blocks, t)
                         THEN blocks - Cardinality(downloaded_blocks[t])
                         ELSE blocks
    IN (remain_blocks * 100) \div blocks

\* A pump that feeds the debounce while the handler is suspended at the
\* control-message edit cancels that edit: the request may or may not have
\* reached the message service already.
FeedTimeout(t) ==
    /\ stream_debounce' = feed_timeout(t, Size)
    /\ IF Has(stream_debounce, t) /\ stream_debounce[t].task = "close_msg"
       THEN \E landed \in BOOLEAN :
              control_message' =
                IF landed
                THEN [control_message EXCEPT ![t] =
                        send_stopped_control_message(stream_debounce[t].device,
                                                     stream_debounce[t].remain)]
                ELSE control_message
       ELSE UNCHANGED control_message

\* ---------------------------------------------- Http._stream_handler (GET)
\* a request slot is idle (no request yet, or the last one was answered with
\* resp) or runs _stream_handler, suspended at the await named by pc.
\* transport[r] is the connection of slot r (request.transport): "open",
\* "closing" (is_closing() is true) or "gone" (the connection is lost:
\* request.transport is None; also the state before the first connection).
\* A connection is kept alive between requests; a lost one is replaced by a
\* new connection when the next request arrives on the slot.
\* stream_transports[t] holds the registered transports that are not lost
\* yet: the code keeps a lost transport in the set, but is_closing() is true
\* for it for ever, so it never changes all(t.is_closing() ...), the only
\* thing the sets are read for.  The keys of the map are exactly the code's.
InFlight(r) == req[r].pc # "idle"

Respond(r, code) ==
    req' = [req EXCEPT ![r] = [@ EXCEPT !.pc = "idle", !.resp = code,
                                        !.offset = 0, !.skip = 0]]

\* http.py:222-256: path checks, admission check, Range parse, up to the
\* await of get_message
stream_handler(r, t, wellformed, start) ==
    IF ~wellformed
    THEN [req[r] EXCEPT !.pc = "idle", !.resp = 401, !.token = t]
    ELSE IF ~check_local_token(t)
    THEN [req[r] EXCEPT !.pc = "idle", !.resp = 403, !.token = t]
    ELSE LET p == parse_http_range(RangeHeader(start, NoCap), BlockSize)
         IN [pc |-> "get_message", token |-> t,
             offset |-> p[1], skip |-> p[2], resp |-> 0]

\* a GET /stream/{message_id}/{token} arrives on the kept-alive connection
\* of the slot, or on a new connection when the last one is closed
StreamHandler(r, t, wellformed, start) ==
    /\ ~InFlight(r)
    /\ transport[r] # "closing"
    /\ transport' = [transport EXCEPT ![r] = "open"]
    /\ req' = [req EXCEPT ![r] = stream_handler(r, t, wellformed, start)]
    /\ UNCHANGED <<httpMaps, sessionVars, op, history>>
    /\ UNCHANGED isolated

\* lines 256-299: the message lookup returned; size checks; headers; up to
\* the await of stream.prepare
GotMessage(r, found) ==
    /\ req[r].pc = "get_message"
    /\ IF ~found
       THEN Respond(r, 404)
       ELSE LET read_after == req[r].offset + req[r].skip
            IN IF read_after > Size
               THEN Respond(r, 400)
               ELSE req' = [req EXCEPT ![r] =
                              [@ EXCEPT !.pc = "prepare",
                                        !.resp = IF read_after # 0 THEN 206 ELSE 200]]
    /\ UNCHANGED <<httpMaps, sessionVars, op, transport, history>>
    /\ UNCHANGED isolated

\* the head of `while offset < max_size`: feed the debounce and await
\* get_block, or leave the loop and await write_eof
LoopHead(r, offset) ==
    IF offset < Size
    THEN /\ FeedTimeout(req[r].token)
         /\ req' = [req EXCEPT ![r] = [@ EXCEPT !.pc = "get_block", !.offset = offset]]
    ELSE /\ req' = [req EXCEPT ![r] = [@ EXCEPT !.pc = "eof", !.offset = 0]]
         /\ UNCHANGED <<stream_debounce, control_message>>

\* stream.prepare returned
Prepared(r) ==
    /\ req[r].pc = "prepare"
    /\ LoopHead(r, req[r].offset)
    /\ UNCHANGED <<tokens, downloaded_blocks, stream_transports, playing_videos,
                   playing_device, op, transport, history>>
    /\ UNCHANGED isolated

\* lines 304-322: get_block returned; transport checks; up to the await of
\* stream.write
GotBlock(r) ==
    /\ req[r].pc = "get_block"
    /\ IF transport[r] = "gone"
       THEN /\ req' = [req EXCEPT ![r] = [@ EXCEPT !.pc = "eof", !.skip = 0, !.offset = 0]]
            /\ UNCHANGED stream_transports
       ELSE /\ stream_transports' = feed_stream_transport(req[r].token, r)
            /\ req' = [req EXCEPT ![r] =
                         IF is_closing(r)
                         THEN [@ EXCEPT !.pc = "eof", !.skip = 0, !.offset = 0]
                         ELSE [@ EXCEPT !.pc = "write", !.skip = 0]]
    /\ UNCHANGED <<tokens, downloaded_blocks, stream_debounce, sessionVars, op,
                   transport, history>>
    /\ UNCHANGED isolated

\* a pump that records the block although its write failed
Written_records_failed_block(r, ok) ==
    /\ req[r].pc = "write"
    /\ ok \/ transport[r] # "open"
    /\ downloaded_blocks' = feed_downloaded_blocks(req[r].offset, req[r].token)
    /\ IF ok
       THEN /\ written_blocks' =
                 IF req[r].token \in tokens
                 THEN [written_blocks EXCEPT ![req[r].token] = @ \cup {req[r].offset}]
                 ELSE written_blocks
            /\ LoopHead(r, req[r].offset + Min(BlockSize, Size - req[r].offset))
       ELSE /\ req' = [req EXCEPT ![r] = [@ EXCEPT !.pc = "idle", !.offset = 0]]
            /\ UNCHANGED <<stream_debounce, control_message, written_blocks>>
    /\ UNCHANGED <<tokens, stream_transports, playing_videos, playing_device,
                   op, transport, close_calls, on_close_calls, reclaimed>>
    /\ UNCHANGED isolated

\* lines 322-324 and the next loop head: stream.write returned, or raised a
\* connection error (caught at line 327, the handler ends)
Written(r, ok) ==
    /\ req[r].pc = "write"
    /\ ok \/ transport[r] # "open"
    /\ IF ok
       THEN /\ downloaded_blocks' = feed_downloaded_blocks(req[r].offset, req[r].token)
            /\ written_blocks' =
                 IF req[r].token \in tokens
                 THEN [written_blocks EXCEPT ![req[r].token] = @ \cup {req[r].offset}]
                 ELSE written_blocks
            /\ LoopHead(r, req[r].offset + Min(BlockSize, Size - req[r].offset))
       ELSE /\ req' = [req EXCEPT ![r] = [@ EXCEPT !.pc = "idle", !.offset = 0]]
            /\ UNCHANGED <<downloaded_blocks, stream_debounce, control_message,
                           written_blocks>>
    /\ UNCHANGED <<tokens, stream_transports, playing_videos, playing_device,
                   op, transport, close_calls, on_close_calls, reclaimed>>
    /\ UNCHANGED isolated

\* line 326: write_eof returned (or raised a connection error, caught)
WriteEof(r) ==
    /\ req[r].pc = "eof"
    /\ req' = [req EXCEPT ![r] = [@ EXCEPT !.pc = "idle"]]
    /\ UNCHANGED <<httpMaps, sessionVars, op, transport, history>>
    /\ UNCHANGED isolated

\* the peer (or the server) closes the connection of slot r
TransportClosing(r) ==
    /\ transport[r] = "open"
    /\ transport' = [transport EXCEPT ![r] = "closing"]
    /\ UNCHANGED <<httpMaps, sessionVars, op, req, history>>
    /\ UNCHANGED isolated

\* connection_lost: request.transport becomes None for the request that
\* runs on the connection
TransportGone(r) ==
    /\ transport[r] = "closing"
    /\ transport' = [transport EXCEPT ![r] = "gone"]
    /\ stream_transports' =
         [k \in DOMAIN stream_transports |-> stream_transports[k] \ {r}]
    /\ UNCHANGED <<tokens, downloaded_blocks, stream_debounce, sessionVars, op,
                   req, history>>
    /\ UNCHANGED isolated

\* ------------------------------------------- Http._timeout_handler + close
\* an end of the reclaim branch that leaves the token admitted
RemoveSession_keeps_token(t) ==
    /\ playing_videos' = playing_videos \ {t}
    /\ tokens' = tokens
    /\ stream_debounce' = Del(stream_debounce, t)
    /\ stream_transports' = Del(stream_transports, t)
    /\ reclaimed' = [reclaimed EXCEPT ![t] = TRUE]
    /\ written_blocks' = [written_blocks EXCEPT ![t] = {}]

\* the end of the reclaim branch, reached when close() has returned:
\* PlayingVideos.remove (video.py:212, 29-32), then http.py:208-215
RemoveSession(t) ==
    /\ playing_videos' = playing_videos \ {t}
    /\ tokens' = tokens \ {t}
    /\ stream_debounce' = Del(stream_debounce, t)
    /\ stream_transports' = Del(stream_transports, t)
    /\ reclaimed' = [reclaimed EXCEPT ![t] = TRUE]
    /\ written_blocks' = [written_blocks EXCEPT ![t] = {}]

\* PlayingVideo.close up to its first await: the handler's locals
\* (remaining percentage, device) and the suspended task
EnterClose(d, t, pct) ==
    [d EXCEPT !.task = "close_msg", !.remain = pct, !.device = playing_device[t]]

\* the timer of the debounce of t expires: _debounce_wrap calls
\* _timeout_handler(*args); it runs up to the await inside close(), or to
\* its end when close() is not called
TimeoutHandler(t) ==
    /\ Has(stream_debounce, t)
    /\ InSleep(stream_debounce[t])
    /\ LET local_token == stream_debounce[t].args[1]
           size == stream_debounce[t].args[2]
       IN IF AllClosing(local_token)
          THEN /\ downloaded_blocks' = Del(downloaded_blocks, local_token)
               /\ IF local_token \in tokens
                  THEN /\ stream_debounce' =
                            [stream_debounce EXCEPT ![t] =
                               EnterClose(@, local_token, RemainPct(local_token, size))]
                       /\ close_calls' = [close_calls EXCEPT ![local_token] = Count(@)]
                       /\ UNCHANGED <<stream_transports>>
                  ELSE /\ stream_debounce' = Del(stream_debounce, local_token)
                       /\ stream_transports' = Del(stream_transports, local_token)
                       /\ UNCHANGED close_calls
          ELSE /\ stream_debounce' =
                    [stream_debounce EXCEPT ![t] = reschedule(@)]
               /\ UNCHANGED <<downloaded_blocks, stream_transports, close_calls>>
    /\ UNCHANGED <<tokens, sessionVars, op, req, transport, on_close_calls, reclaimed,
                   written_blocks>>
    /\ UNCHANGED isolated

\* close(): the control-message edit returned; device.on_close(token) is
\* called. A device whose on_close does not suspend returns at once and the
\* handler runs to its end; otherwise the handler is suspended in on_close.
CloseMessageSent(t) ==
    /\ Has(stream_debounce, t)
    /\ stream_debounce[t].task = "close_msg"
    /\ LET d == stream_debounce[t]
       IN /\ control_message' = [control_message EXCEPT ![t] =
                                   send_stopped_control_message(d.device, d.remain)]
          /\ IF d.device = NoDevice
             THEN \* None.on_close: AttributeError ends the task
                  /\ stream_debounce' = [stream_debounce EXCEPT ![t] = Failed(@)]
                  /\ UNCHANGED <<tokens, stream_transports, playing_videos,
                                 on_close_calls, reclaimed, written_blocks>>
             ELSE /\ on_close_calls' = [on_close_calls EXCEPT ![t] = Count(@)]
                  /\ IF OnCloseSuspends(d.device)
                     THEN /\ stream_debounce' =
                               [stream_debounce EXCEPT ![t] = [@ EXCEPT !.task = "close_dev", !.remain = 0]]
                          /\ UNCHANGED <<tokens, stream_transports, playing_videos,
                                         reclaimed, written_blocks>>
                     ELSE RemoveSession(t)
    /\ UNCHANGED <<downloaded_blocks, playing_device, op, req, transport,
                   close_calls>>
    /\ UNCHANGED isolated

\* device.on_close returned, or raised: close() has no handler for it, the
\* exception ends _timeout_handler and the debounce task
OnCloseReturned(t, ok) ==
    /\ Has(stream_debounce, t)
    /\ stream_debounce[t].task = "close_dev"
    /\ IF ok
       THEN RemoveSession(t)
       ELSE /\ stream_debounce' = [stream_debounce EXCEPT ![t] = Failed(@)]
            /\ UNCHANGED <<tokens, stream_transports, playing_videos, reclaimed,
                           written_blocks>>
    /\ UNCHANGED <<downloaded_blocks, playing_device, control_message, op, req,
                   transport, close_calls, on_close_calls>>
    /\ UNCHANGED isolated


\* ------------------------------------- PlayingVideos / PlayingVideo (video.py)
\* PlayingVideos.reconstruct_playing_video: the registered object, or a new
\* one whose device is looked up by the name on the control message (None
\* when the message names no device or the device is not found any more)
ReconstructedDevices(t) ==
    IF t \in playing_videos THEN {playing_device[t]}
    ELSE IF control_message[t].kind = "Select" THEN {NoDevice}
    ELSE {control_message[t].dev, NoDevice}

\* an operation that ended: what it answered, and its log: the admission,
\* the device commands it issued and how each returned ("ok" / "err")
Ended(kind, cmds, result) ==
    [kind |-> kind, pc |-> "idle", cmds |-> cmds, result |-> result, msg |-> NoMessage]

Running(kind, pc, cmds, msg) ==
    [kind |-> kind, pc |-> pc, cmds |-> cmds, result |-> "none", msg |-> msg]

\* every button click first resolves its PlayingVideo
Resolve(t, dv) ==
    /\ op[t].pc = "idle"
    /\ dv \in ReconstructedDevices(t)
    /\ playing_videos' = playing_videos \cup {t}

\* a play() that admits the token before it looks at the device
PlayStart_admits_first(t, dv) ==
    /\ Resolve(t, dv)
    /\ playing_device' = [playing_device EXCEPT ![t] = dv]
    /\ tokens' = add_remote_token(t)
    /\ IF dv = NoDevice
       THEN /\ op' = [op EXCEPT ![t] = Ended("play", <<>>, "NoDevice")]
            /\ UNCHANGED history
       ELSE /\ op' = [op EXCEPT ![t] = Running("play", "stop", <<"admit", "stop">>, NoMessage)]
            /\ reclaimed' = [reclaimed EXCEPT ![t] = FALSE]
            /\ IF t \in tokens
               THEN UNCHANGED <<close_calls, on_close_calls, written_blocks>>
               ELSE /\ close_calls' = [close_calls EXCEPT ![t] = 0]
                    /\ on_close_calls' = [on_close_calls EXCEPT ![t] = 0]
                    /\ written_blocks' = [written_blocks EXCEPT ![t] = {}]
    /\ UNCHANGED <<downloaded_blocks, stream_debounce, stream_transports,
                   control_message, req, transport>>
    /\ UNCHANGED isolated

\* PlayingVideo.play up to `await self.playing_device.stop()`
PlayStart(t, dv) ==
    /\ Resolve(t, dv)
    /\ playing_device' = [playing_device EXCEPT ![t] = dv]
    /\ IF dv = NoDevice
       THEN /\ op' = [op EXCEPT ![t] = Ended("play", <<>>, "NoDevice")]
            /\ UNCHANGED <<tokens, history>>
       ELSE /\ tokens' = add_remote_token(t)
            /\ op' = [op EXCEPT ![t] = Running("play", "stop", <<"admit", "stop">>, NoMessage)]
            /\ reclaimed' = [reclaimed EXCEPT ![t] = FALSE]
            /\ IF t \in tokens
               THEN UNCHANGED <<close_calls, on_close_calls, written_blocks>>
               ELSE /\ close_calls' = [close_calls EXCEPT ![t] = 0]
                    /\ on_close_calls' = [on_close_calls EXCEPT ![t] = 0]
                    /\ written_blocks' = [written_blocks EXCEPT ![t] = {}]
    /\ UNCHANGED <<downloaded_blocks, stream_debounce, stream_transports,
                   control_message, req, transport>>
    /\ UNCHANGED isolated

\* a play() that goes on to device.play(...) whatever device.stop() did
PlayStopReturned_ignores_failure(t, ok) ==
    /\ op[t].kind = "play" /\ op[t].pc = "stop"
    /\ op' = [op EXCEPT ![t] =
                Running("play", "play",
                        op[t].cmds \o <<IF ok THEN "ok" ELSE "err", "play">>, NoMessage)]
    /\ UNCHANGED <<httpMaps, sessionVars, req, transport, history>>
    /\ UNCHANGED isolated

\* device.stop() returned or raised; on success device.play(...) is awaited
PlayStopReturned(t, ok) ==
    /\ op[t].kind = "play" /\ op[t].pc = "stop"
    /\ op' = [op EXCEPT ![t] =
                IF ok THEN Running("play", "play", op[t].cmds \o <<"ok", "play">>, NoMessage)
                ELSE Ended("play", Append(op[t].cmds, "err"), "error")]
    /\ UNCHANGED <<httpMaps, sessionVars, req, transport, history>>
    /\ UNCHANGED isolated

\* device.play() returned or raised; on success the Playing message is sent
PlayPlayReturned(t, ok) ==
    /\ op[t].kind = "play" /\ op[t].pc = "play"
    /\ op' = [op EXCEPT ![t] =
                IF ok THEN Running("play", "msg", Append(op[t].cmds, "ok"),
                                   send_playing_control_message(playing_device[t]))
                ELSE Ended("play", Append(op[t].cmds, "err"), "error")]
    /\ UNCHANGED <<httpMaps, sessionVars, req, transport, history>>
    /\ UNCHANGED isolated

\* PlayingVideo.stop up to `await self.playing_device.stop()`, or, with no
\* device, up to the await of the message edit
StopStart(t, dv) ==
    /\ Resolve(t, dv)
    /\ playing_device' = [playing_device EXCEPT ![t] = dv]
    /\ op' = [op EXCEPT ![t] =
                IF dv # NoDevice
                THEN Running("stop", "stop", <<"stop">>, NoMessage)
                ELSE Running("stop", "msg", <<>>, send_stopped_control_message(dv, NoPct))]
    /\ UNCHANGED <<httpMaps, control_message, req, transport, history>>
    /\ UNCHANGED isolated

\* a stop() that lets the failure of device.stop() reach its caller
StopStopReturned_propagates_failure(t, ok) ==
    /\ op[t].kind = "stop" /\ op[t].pc = "stop"
    /\ op' = [op EXCEPT ![t] =
                IF ok THEN Running("stop", "msg", Append(op[t].cmds, "ok"),
                                   send_stopped_control_message(playing_device[t], NoPct))
                ELSE Ended("stop", Append(op[t].cmds, "err"), "error")]
    /\ UNCHANGED <<httpMaps, sessionVars, req, transport, history>>
    /\ UNCHANGED isolated

\* device.stop() returned or raised (logged); the Stopped message is sent
StopStopReturned(t, ok) ==
    /\ op[t].kind = "stop" /\ op[t].pc = "stop"
    /\ op' = [op EXCEPT ![t] =
                Running("stop", "msg", Append(op[t].cmds, IF ok THEN "ok" ELSE "err"),
                        send_stopped_control_message(playing_device[t], NoPct))]
    /\ UNCHANGED <<httpMaps, sessionVars, req, transport, history>>
    /\ UNCHANGED isolated

\* a pause() that commands the device without looking for the capability
PauseStart_without_capability_check(t, dv) ==
    /\ Resolve(t, dv)
    /\ playing_device' = [playing_device EXCEPT ![t] = dv]
    /\ op' = [op EXCEPT ![t] =
                IF dv = NoDevice THEN Ended("pause", <<>>, "NoDevice")
                ELSE Running("pause", "dev", <<"pause">>, NoMessage)]
    /\ UNCHANGED <<httpMaps, control_message, req, transport, history>>
    /\ UNCHANGED isolated

\* PlayingVideo.pause up to `await self.playing_device.pause()`
PauseStart(t, dv) ==
    /\ Resolve(t, dv)
    /\ playing_device' = [playing_device EXCEPT ![t] = dv]
    /\ op' = [op EXCEPT ![t] =
                IF dv = NoDevice THEN Ended("pause", <<>>, "NoDevice")
                ELSE IF HasPause(dv) THEN Running("pause", "dev", <<"pause">>, NoMessage)
                ELSE Ended("pause", <<>>, "ActionNotSupported")]
    /\ UNCHANGED <<httpMaps, control_message, req, transport, history>>
    /\ UNCHANGED isolated

\* device.pause() returned or raised
PauseReturned(t, ok) ==
    /\ op[t].kind = "pause" /\ op[t].pc = "dev"
    /\ op' = [op EXCEPT ![t] =
                IF ok THEN Running("pause", "msg", Append(op[t].cmds, "ok"),
                                   send_paused_control_message(playing_device[t]))
                ELSE Ended("pause", Append(op[t].cmds, "err"), "error")]
    /\ UNCHANGED <<httpMaps, sessionVars, req, transport, history>>
    /\ UNCHANGED isolated

\* PlayingVideo.resume up to `await self.playing_device.resume()`
ResumeStart(t, dv) ==
    /\ Resolve(t, dv)
    /\ playing_device' = [playing_device EXCEPT ![t] = dv]
    /\ op' = [op EXCEPT ![t] =
                IF dv = NoDevice THEN Ended("resume", <<>>, "NoDevice")
                ELSE IF HasResume(dv) THEN Running("resume", "dev", <<"resume">>, NoMessage)
                ELSE Ended("resume", <<>>, "ActionNotSupported")]
    /\ UNCHANGED <<httpMaps, control_message, req, transport, history>>
    /\ UNCHANGED isolated

\* device.resume() returned or raised
ResumeReturned(t, ok) ==
    /\ op[t].kind = "resume" /\ op[t].pc = "dev"
    /\ op' = [op EXCEPT ![t] =
                IF ok THEN Running("resume", "msg", Append(op[t].cmds, "ok"),
                                   send_playing_control_message(playing_device[t]))
                ELSE Ended("resume", Append(op[t].cmds, "err"), "error")]
    /\ UNCHANGED <<httpMaps, sessionVars, req, transport, history>>
    /\ UNCHANGED isolated

\* PlayingVideo.select_device(device) up to the await of the message edit
SelectDevice(t, dv, device) ==
    /\ Resolve(t, dv)
    /\ playing_device' = [playing_device EXCEPT ![t] = device]
    /\ op' = [op EXCEPT ![t] =
                Running("select", "msg", <<>>, send_stopped_control_message(device, NoPct))]
    /\ UNCHANGED <<httpMaps, control_message, req, transport, history>>
    /\ UNCHANGED isolated

\* DeviceMenuButton.on_click: PlayingVideo.send_select_device_message
DeviceMenu(t, dv) ==
    /\ Resolve(t, dv)
    /\ playing_device' = [playing_device EXCEPT ![t] = dv]
    /\ op' = [op EXCEPT ![t] = Running("menu", "msg", <<>>, send_select_device_message)]
    /\ UNCHANGED <<httpMaps, control_message, req, transport, history>>
    /\ UNCHANGED isolated

\* what VideoControlButton.on_click answers when the operation returned
Status(kind, dev) ==
    CASE kind = "play" -> "Playing"
      [] kind = "stop" -> IF dev = NoDevice THEN "NoDevice" ELSE "Stopped"
      [] kind = "pause" -> "Paused"
      [] kind = "resume" -> "Resumed"
      [] OTHER -> "ok"

\* create_or_update_control_message: the edit of the control message
\* returned; the operation ends (stop() raises NoDevice only now)
ControlMessageEdited(t) ==
    /\ op[t].pc = "msg"
    /\ control_message' = [control_message EXCEPT ![t] = op[t].msg]
    /\ op' = [op EXCEPT ![t] =
                Ended(op[t].kind, op[t].cmds, Status(op[t].kind, playing_device[t]))]
    /\ UNCHANGED <<httpMaps, playing_videos, playing_device, req, transport, history>>
    /\ UNCHANGED isolated

\* ------------------------------------------------------------------- Next
Next ==
    \/ \E r \in Reqs, t \in Tokens, start \in RangeStarts :
         \E path \in Paths(t) : StreamHandler(r, t, PathDigits(path), start)
    \/ \E r \in Reqs, found \in BOOLEAN : GotMessage(r, found)
    \/ \E r \in Reqs : Prepared(r)
    \/ \E r \in Reqs : GotBlock(r)
    \/ \E r \in Reqs, ok \in BOOLEAN : Written(r, ok)
    \/ \E r \in Reqs : WriteEof(r)
    \/ \E r \in Reqs : TransportClosing(r)
    \/ \E r \in Reqs : TransportGone(r)
    \/ \E t \in Tokens : TimeoutHandler(t)
    \/ \E t \in Tokens : CloseMessageSent(t)
    \/ \E t \in Tokens, ok \in BOOLEAN : OnCloseReturned(t, ok)
    \/ \E t \in Tokens, dv \in Devices \cup {NoDevice} : PlayStart(t, dv)
    \/ \E t \in Tokens, ok \in BOOLEAN : PlayStopReturned(t, ok)
    \/ \E t \in Tokens, ok \in BOOLEAN : PlayPlayReturned(t, ok)
    \/ \E t \in Tokens, dv \in Devices \cup {NoDevice} : StopStart(t, dv)
    \/ \E t \in Tokens, ok \in BOOLEAN : StopStopReturned(t, ok)
    \/ \E t \in Tokens, dv \in Devices \cup {NoDevice} : PauseStart(t, dv)
    \/ \E t \in Tokens, ok \in BOOLEAN : PauseReturned(t, ok)
    \/ \E t \in Tokens, dv \in Devices \cup {NoDevice} : ResumeStart(t, dv)
    \/ \E t \in Tokens, ok \in BOOLEAN : ResumeReturned(t, ok)
    \/ \E t \in Tokens, dv \in Devices \cup {NoDevice}, device \in Devices :
         SelectDevice(t, dv, device)
    \/ \E t \in Tokens, dv \in Devices \cup {NoDevice} : DeviceMenu(t, dv)
    \/ \E t \in Tokens : ControlMessageEdited(t)

Spec == Init /\ [][Next]_vars

\* =============================================== AsyncDebounce on its own
\* One AsyncDebounce object, its function and timeout fixed, driven by any
\* caller through update_args() and reschedule().  Every task the object
\* ever created is kept, in creation order: tasks[k] is the k-th task,
\*   "sleeping"   in asyncio.sleep(timeout) of _debounce_wrap
\*   "running"    inside await function(*args)
\*   "finished"   the function returned or raised
\*   "cancelled"  Task.cancel() reached it before it finished
\* calls lists the invocations of the function as <<task, args>>, and last
\* is the most recent step with the task it created or concerned.
MaxTasks == 4
MaxArg == 2

ArgVals == 1..MaxArg
None == 0

NewDebounce ==
    [args |-> None, task |-> None, tasks |-> <<>>, calls |-> <<>>,
     last |-> [call |-> "init", task |-> None]]

InitDebounce ==
    /\ InitMain
    /\ session_table = Unused
    /\ admission = Unused
    /\ block_pump = Unused
    /\ playing_video = Unused
    /\ device_finders = Unused
    /\ web_devices = Unused
    /\ upnp_notify = Unused
    /\ callback_data = Unused
    /\ async_debounce = NewDebounce
    /\ range_request = Unused
    /\ token_string = Unused
    /\ responses = Unused

\* asyncio.Task.task_done(): finished, failed or cancelled
task_done(d, k) == d.tasks[k].state \in {"finished", "cancelled"}

\* asyncio.Task.cancel(): a task that is not done ends at its current await
cancel(d, k) ==
    IF task_done(d, k) THEN d ELSE [d EXCEPT !.tasks[k].state = "cancelled"]

InFlightTasks(d) ==
    {k \in 1..Len(d.tasks) : d.tasks[k].state \in {"sleeping", "running"}}

Invocations(d, k) == {i \in 1..Len(d.calls) : d.calls[i][1] = k}

\* AsyncDebounce._run(): a new task for the remembered arguments becomes
\* self._task; whatever task was there before is left as it is
Debounce_run(d) ==
    IF d.args = None
    THEN d
    ELSE [d EXCEPT !.tasks = Append(@, [args |-> d.args, state |-> "sleeping"]),
                   !.task = Len(d.tasks) + 1]

\* update_args() that forgets to cancel the pending task
UpdateArgs_without_cancel(x) ==
    /\ Len(async_debounce.tasks) < MaxTasks
    /\ LET d == async_debounce
       IN IF d.task # None /\ task_done(d, d.task)
          THEN async_debounce' = [d EXCEPT !.last = [call |-> "update_args", task |-> None]]
          ELSE LET r == Debounce_run([d EXCEPT !.args = x])
               IN async_debounce' = [r EXCEPT !.last = [call |-> "update_args", task |-> r.task]]
    /\ UNCHANGED <<mainVars, range_request, token_string, responses, deviceVars, laterVars>>

\* AsyncDebounce.update_args(x): refused (False) once the current task is
\* done; otherwise the current task is cancelled and a fresh one scheduled
UpdateArgs(x) ==
    /\ Len(async_debounce.tasks) < MaxTasks
    /\ LET d == async_debounce
       IN IF d.task # None /\ task_done(d, d.task)
          THEN async_debounce' = [d EXCEPT !.last = [call |-> "update_args", task |-> None]]
          ELSE LET c == IF d.task # None THEN cancel(d, d.task) ELSE d
                   r == Debounce_run([c EXCEPT !.args = x])
               IN async_debounce' = [r EXCEPT !.last = [call |-> "update_args", task |-> r.task]]
    /\ UNCHANGED <<mainVars, range_request, token_string, responses, deviceVars, laterVars>>

\* AsyncDebounce.reschedule(): _run() and nothing else
Reschedule ==
    /\ Len(async_debounce.tasks) < MaxTasks
    /\ LET d == async_debounce
           r == Debounce_run(d)
       IN async_debounce' =
              [r EXCEPT !.last = [call |-> "reschedule",
                                  task |-> IF d.args = None THEN None ELSE r.task]]
    /\ UNCHANGED <<mainVars, range_request, token_string, responses, deviceVars, laterVars>>

\* _debounce_wrap: the sleep of task k is over and the function is called
\* with the arguments the task was created for
TimerExpires(k) ==
    /\ k \in 1..Len(async_debounce.tasks)
    /\ async_debounce.tasks[k].state = "sleeping"
    /\ async_debounce' =
           [async_debounce EXCEPT !.tasks[k].state = "running",
                                  !.calls = Append(@, <<k, async_debounce.tasks[k].args>>),
                                  !.last = [call |-> "timer", task |-> k]]
    /\ UNCHANGED <<mainVars, range_request, token_string, responses, deviceVars, laterVars>>

\* _debounce_wrap: the function called by task k returns or raises
FunctionEnds(k) ==
    /\ k \in 1..Len(async_debounce.tasks)
    /\ async_debounce.tasks[k].state = "running"
    /\ async_debounce' =
           [async_debounce EXCEPT !.tasks[k].state = "finished",
                                  !.last = [call |-> "end", task |-> k]]
    /\ UNCHANGED <<mainVars, range_request, token_string, responses, deviceVars, laterVars>>

NextDebounce ==
    \/ \E x \in ArgVals : UpdateArgs(x)
    \/ Reschedule
    \/ \E k \in 1..MaxTasks : TimerExpires(k)
    \/ \E k \in 1..MaxTasks : FunctionEnds(k)

\* the event loop runs: a sleep that is not cancelled comes to its end
SpecDebounce ==
    /\ InitDebounce
    /\ [][NextDebounce]_vars
    /\ \A k \in 1..MaxTasks : WF_vars(TimerExpires(k))

\* ======================================= one ranged /stream request on its own
\* Http._stream_handler for a request that passed the admission check, on a
\* transport that stays open, followed byte by byte: range_request holds the
\* document size, the block size of the server, the Range header, and the
\* handler's locals.  A block of the document is the pair <<lo, hi>> of the
\* offsets lo..hi-1 it holds; fetched lists the offsets asked of get_block
\* and body the blocks written, each with the block it was cut from;
\* downloaded is what the request adds to the downloaded blocks of its token.
MaxDocSize == 6
MaxBlockSize == 3

Bytes(b) == [i \in 1..(b[2] - b[1]) |-> b[1] + i - 1]

\* BotClient.get_block(message, offset, block_size): up to block_size bytes
\* at offset, fewer at the end of the document
get_block(offset, block_size, size) ==
    <<offset, Min(offset + block_size, size)>>

\* bytes[n:]
SliceFrom(b, n) == <<Min(b[1] + n, b[2]), b[2]>>

\* bytes[:-n], n > 0
SliceDropLast(b, n) == <<b[1], IF b[2] - n > b[1] THEN b[2] - n ELSE b[1]>>

\* a check that turns down an end below the document size
range_status_rejects_small_cap(offset, data_to_skip, max_size, size) ==
    LET read_after == offset + data_to_skip
    IN IF read_after > size THEN 400
       ELSE IF max_size # NoCap /\ max_size < size THEN 400
       ELSE IF read_after # 0 \/ (max_size # NoCap /\ max_size # size) THEN 206
       ELSE 200

\* http.py:267-278: the status of a request whose document was found
range_status(offset, data_to_skip, max_size, size) ==
    LET read_after == offset + data_to_skip
    IN IF read_after > size THEN 400
       ELSE IF max_size # NoCap /\ size < max_size THEN 400
       ELSE IF read_after # 0 \/ (max_size # NoCap /\ max_size # size) THEN 206
       ELSE 200

\* a pump that writes every block as it was fetched
cut_block_whole(block, new_offset, data_to_skip, max_size) == block

\* http.py:307-312: the block as it is written
cut_block(block, new_offset, data_to_skip, max_size) ==
    LET skipped == IF data_to_skip # 0 THEN SliceFrom(block, data_to_skip) ELSE block
    IN IF new_offset > max_size
       THEN SliceDropLast(skipped, new_offset - max_size)
       ELSE skipped

\* first and last are the numbers the client put into the header (NoCap
\* for one it left out)
NewRangeRequest(size, block_size, header, first, last) ==
    [size |-> size, block_size |-> block_size, header |-> header,
     first |-> first, last |-> last,
     pc |-> "start", status |-> 0,
     offset |-> 0, data_to_skip |-> 0, max_size |-> NoCap, new_offset |-> 0,
     fetched |-> <<>>, body |-> <<>>, downloaded |-> {}]

RangeEnds == (0..(MaxDocSize + 1)) \cup {NoCap}

OtherHeaders == {NoRange, [unit |-> "items", first |-> <<0>>, last |-> <<>>]}

\* a document that ends four bytes after its first one-mebibyte block, asked
\* for from that block's end
LastBytesRequest ==
    NewRangeRequest(1048580, 1048576, RangeHeader(1048576, NoCap), 1048576, NoCap)

InitRange ==
    /\ InitMain
    /\ session_table = Unused
    /\ admission = Unused
    /\ block_pump = Unused
    /\ playing_video = Unused
    /\ device_finders = Unused
    /\ web_devices = Unused
    /\ upnp_notify = Unused
    /\ callback_data = Unused
    /\ async_debounce = Unused
    /\ token_string = Unused
    /\ responses = Unused
    /\ range_request \in
         {NewRangeRequest(size, bs, RangeHeader(a, b), a, b) :
              size \in 0..MaxDocSize, bs \in 1..MaxBlockSize,
              a \in RangeEnds, b \in RangeEnds}
         \cup {NewRangeRequest(size, bs, h, NoCap, NoCap) :
                  size \in 0..MaxDocSize, bs \in 1..MaxBlockSize, h \in OtherHeaders}
         \cup {LastBytesRequest}

\* http.py:240-256: the Range header is read; up to the await of get_message
RangeParsed ==
    /\ range_request.pc = "start"
    /\ LET q == range_request
           p == IF q.header = NoRange THEN <<0, 0, NoCap>>
                ELSE parse_http_range(q.header, q.block_size)
       IN range_request' =
            IF p = ValueError THEN [q EXCEPT !.pc = "done", !.status = 400]
            ELSE IF p[2] > q.block_size THEN [q EXCEPT !.pc = "done", !.status = 500]
            ELSE [q EXCEPT !.pc = "get_message", !.offset = p[1],
                           !.data_to_skip = p[2], !.max_size = p[3]]
    /\ UNCHANGED <<mainVars, async_debounce, token_string, responses, deviceVars, laterVars>>

\* http.py:266-299: the document is found; size checks, status, headers, up
\* to the first loop head
RangeGotMessage ==
    /\ range_request.pc = "get_message"
    /\ LET q == range_request
           status_code == range_status(q.offset, q.data_to_skip, q.max_size, q.size)
       IN range_request' =
            IF status_code = 400 THEN [q EXCEPT !.pc = "done", !.status = 400]
            ELSE [q EXCEPT !.pc = "loop", !.status = status_code,
                           !.max_size = IF @ = NoCap THEN q.size ELSE @]
    /\ UNCHANGED <<mainVars, async_debounce, token_string, responses, deviceVars, laterVars>>

\* http.py:302-312: the loop head; get_block is awaited and its block cut, or
\* the loop is left and write_eof ends the response
RangeGetBlock ==
    /\ range_request.pc = "loop"
    /\ LET q == range_request
       IN range_request' =
            IF q.offset < q.max_size
            THEN LET block == get_block(q.offset, q.block_size, q.size)
                     new_offset == q.offset + (block[2] - block[1])
                 IN [q EXCEPT !.pc = "write",
                              !.fetched = Append(@, q.offset),
                              !.new_offset = new_offset,
                              !.data_to_skip = 0,
                              !.body = Append(@, [fetched |-> block,
                                                  sent |-> cut_block(block, new_offset,
                                                                     q.data_to_skip, q.max_size)])]
            ELSE [q EXCEPT !.pc = "done"]
    /\ UNCHANGED <<mainVars, async_debounce, token_string, responses, deviceVars, laterVars>>

\* http.py:322-324: stream.write returned; the offset of the block goes
\* into the downloaded blocks of the token
RangeWritten ==
    /\ range_request.pc = "write"
    /\ range_request' = [range_request EXCEPT !.pc = "loop",
                                              !.downloaded = @ \cup {range_request.offset},
                                              !.offset = range_request.new_offset]
    /\ UNCHANGED <<mainVars, async_debounce, token_string, responses, deviceVars, laterVars>>

NextRange ==
    \/ RangeParsed
    \/ RangeGotMessage
    \/ RangeGetBlock
    \/ RangeWritten

SpecRange == InitRange /\ [][NextRange]_vars

\* ================================================== one LocalToken on its own
\* A LocalToken is made from a message id and a token part, printed with
\* str() and read back with LocalToken.deserialize.  The two halves of the
\* value are 64 bits wide in the program and TokenBits wide here; a hex
\* string is the sequence of its digits 0..15.
TokenBits == 3

Half == 2 ^ TokenBits
Halves == 0..(Half - 1)

RECURSIVE Xor(_, _)
Xor(a, b) ==
    IF a = 0 THEN b
    ELSE IF b = 0 THEN a
    ELSE 2 * Xor(a \div 2, b \div 2) + (((a % 2) + (b % 2)) % 2)

\* format(n, "x")
RECURSIVE str_hex(_)
str_hex(n) ==
    IF n < 16 THEN <<n>> ELSE Append(str_hex(n \div 16), n % 16)

\* int(s, 16)
RECURSIVE int_hex(_)
int_hex(s) ==
    IF Len(s) = 0 THEN 0
    ELSE 16 * int_hex(SubSeq(s, 1, Len(s) - 1)) + s[Len(s)]

\* secret_token(): any value of the width
secret_token == Halves

\* LocalToken.__init__: `token or secret_token()`, secret being the value
\* secret_token() returns when it is called (None and 0 are both falsy)
LocalToken(message_id, token, secret) ==
    [message_id |-> message_id,
     token |-> IF token # None THEN token ELSE secret]

\* smart_tv_telegram.tools.serialize_token
serialize_token(message_id, token) == Xor(token * Half, message_id)

\* a value with the message id in the low half
token_hash_low_message_id(t) == serialize_token(t.message_id, t.token)

\* LocalToken.__hash__
token_hash(t) == Xor(t.message_id * Half, t.token)

\* LocalToken.__eq__
token_eq(a, b) == token_hash(a) = token_hash(b)

\* LocalToken.__str__
token_str(t) == str_hex(token_hash(t))

\* LocalToken.deserialize
deserialize(local_token_raw, secret) ==
    LET local_token == int_hex(local_token_raw)
    IN LocalToken(local_token \div Half, local_token % Half, secret)

NoToken == [message_id |-> 0, token |-> 0]

InitToken ==
    /\ InitMain
    /\ session_table = Unused
    /\ admission = Unused
    /\ block_pump = Unused
    /\ playing_video = Unused
    /\ device_finders = Unused
    /\ web_devices = Unused
    /\ upnp_notify = Unused
    /\ callback_data = Unused
    /\ async_debounce = Unused
    /\ range_request = Unused
    /\ responses = Unused
    /\ token_string \in
         {[message_id |-> m, token |-> k, pc |-> "new",
           made |-> NoToken, text |-> <<>>, read |-> NoToken] :
              m \in Halves, k \in Halves}

\* LocalToken(message_id, token), or LocalToken(message_id) when token is 0
TokenCreated(secret) ==
    /\ token_string.pc = "new"
    /\ token_string' =
         [token_string EXCEPT !.pc = "made",
                              !.made = LocalToken(token_string.message_id,
                                                  token_string.token, secret)]
    /\ UNCHANGED <<mainVars, async_debounce, range_request, responses, deviceVars, laterVars>>

\* str(local_token)
TokenPrinted ==
    /\ token_string.pc = "made"
    /\ token_string' = [token_string EXCEPT !.pc = "printed",
                                            !.text = token_str(token_string.made)]
    /\ UNCHANGED <<mainVars, async_debounce, range_request, responses, deviceVars, laterVars>>

\* LocalToken.deserialize(text)
TokenDeserialized(secret) ==
    /\ token_string.pc = "printed"
    /\ token_string' = [token_string EXCEPT !.pc = "read",
                                            !.read = deserialize(token_string.text, secret)]
    /\ UNCHANGED <<mainVars, async_debounce, range_request, responses, deviceVars, laterVars>>

NextToken ==
    \/ \E secret \in secret_token : TokenCreated(secret)
    \/ TokenPrinted
    \/ \E secret \in secret_token : TokenDeserialized(secret)

SpecToken == InitToken /\ [][NextToken]_vars

\* ============================= concurrent /stream responses for one token
\* NumPumps GET /stream requests for the same admitted token, each accepted
\* with a start of its own and no end, pump the same document at the same
\* time on transports that stay open.  Every response has its own locals
\* (offset, new_offset); the token's downloaded blocks, its registered
\* transports and its debounce are shared.  writes lists, per response, the
\* offsets of the blocks whose stream.write returned.
NumPumps == 2

Pumps == 1..NumPumps

NewPump(start) ==
    [pc |-> "prepare",
     offset |-> parse_http_range(RangeHeader(start, NoCap), BlockSize)[1],
     new_offset |-> 0, writes |-> <<>>]

InitPumps ==
    /\ InitMain
    /\ session_table = Unused
    /\ admission = Unused
    /\ block_pump = Unused
    /\ playing_video = Unused
    /\ device_finders = Unused
    /\ web_devices = Unused
    /\ upnp_notify = Unused
    /\ callback_data = Unused
    /\ async_debounce = Unused
    /\ range_request = Unused
    /\ token_string = Unused
    /\ \E starts \in [Pumps -> 0..MaxDocSize] :
         responses = [size |-> MaxDocSize, downloaded |-> {}, transports |-> {},
                      armed |-> FALSE,
                      pump |-> [p \in Pumps |-> NewPump(starts[p])]]

\* http.py:302-304: `while offset < max_size`: the debounce is fed and
\* get_block awaited, or the loop is left and write_eof awaited
PumpLoopHead(q, p, offset) ==
    IF offset < q.size
    THEN [q EXCEPT !.armed = TRUE,
                   !.pump[p].pc = "get_block", !.pump[p].offset = offset]
    ELSE [q EXCEPT !.pump[p].pc = "eof", !.pump[p].offset = offset]

\* stream.prepare returned
PumpPrepared(p) ==
    /\ responses.pump[p].pc = "prepare"
    /\ responses' = PumpLoopHead(responses, p, responses.pump[p].offset)
    /\ UNCHANGED <<mainVars, async_debounce, range_request, token_string, deviceVars, laterVars>>

\* a pump that records the block when it is fetched
PumpGotBlock_feeds_before_write(p) ==
    /\ responses.pump[p].pc = "get_block"
    /\ LET q == responses
           block == get_block(q.pump[p].offset, BlockSize, q.size)
       IN responses' =
            [q EXCEPT !.transports = @ \cup {p},
                      !.downloaded = @ \cup {q.pump[p].offset},
                      !.pump[p].pc = "write",
                      !.pump[p].new_offset = q.pump[p].offset + (block[2] - block[1])]
    /\ UNCHANGED <<mainVars, async_debounce, range_request, token_string, deviceVars, laterVars>>

\* http.py:304-322: get_block returned; the transport is registered and
\* stream.write awaited
PumpGotBlock(p) ==
    /\ responses.pump[p].pc = "get_block"
    /\ LET q == responses
           block == get_block(q.pump[p].offset, BlockSize, q.size)
       IN responses' =
            [q EXCEPT !.transports = @ \cup {p},
                      !.pump[p].pc = "write",
                      !.pump[p].new_offset = q.pump[p].offset + (block[2] - block[1])]
    /\ UNCHANGED <<mainVars, async_debounce, range_request, token_string, deviceVars, laterVars>>

\* http.py:322-324 and the next loop head: stream.write returned, or raised
\* a connection error (caught at line 327, the handler ends)
PumpWritten(p, ok) ==
    /\ responses.pump[p].pc = "write"
    /\ LET q == responses
       IN responses' =
            IF ok
            THEN PumpLoopHead([q EXCEPT !.downloaded = @ \cup {q.pump[p].offset},
                                        !.pump[p].writes = Append(@, q.pump[p].offset)],
                              p, q.pump[p].new_offset)
            ELSE [q EXCEPT !.pump[p].pc = "done"]
    /\ UNCHANGED <<mainVars, async_debounce, range_request, token_string, deviceVars, laterVars>>

\* line 326: write_eof returned
PumpWriteEof(p) ==
    /\ responses.pump[p].pc = "eof"
    /\ responses' = [responses EXCEPT !.pump[p].pc = "done"]
    /\ UNCHANGED <<mainVars, async_debounce, range_request, token_string, deviceVars, laterVars>>

NextPumps ==
    \/ \E p \in Pumps : PumpPrepared(p)
    \/ \E p \in Pumps : PumpGotBlock(p)
    \/ \E p \in Pumps, ok \in BOOLEAN : PumpWritten(p, ok)
    \/ \E p \in Pumps : PumpWriteEof(p)

SpecPumps == InitPumps /\ [][NextPumps]_vars

\* ================================================= DeviceFinderCollection
\* One DeviceFinderCollection with NumFinders finders.  refresh_all_devices
\* gathers one _refresh_one_finder coroutine per finder; each awaits
\* finder.find() under async_timeout.timeout(request_timeout + 1).
earlierVars == <<async_debounce, range_request, token_string, responses>>

NumFinders == 3

Finders == 1..NumFinders

\* what a find() that returns can return: no device, or the finder's device
FindResults(f) == {<<>>, <<f>>}

\* the value of a coroutine that ends at `pass` (devices_collection.py:37)
NoneValue == [none |-> TRUE, list |-> <<>>]

\* a list returned by find()
ListValue(devices) == [none |-> FALSE, list |-> devices]

NewFinderTask == [pc |-> "new", value |-> NoneValue, cause |-> "none"]

InitFinders ==
    /\ InitMain
    /\ session_table = Unused
    /\ admission = Unused
    /\ block_pump = Unused
    /\ playing_video = Unused
    /\ async_debounce = Unused
    /\ range_request = Unused
    /\ token_string = Unused
    /\ responses = Unused
    /\ web_devices = Unused
    /\ upnp_notify = Unused
    /\ callback_data = Unused
    /\ device_finders = [pc |-> "idle", _devices |-> <<>>, error |-> "none",
                         task |-> [f \in Finders |-> NewFinderTask]]

\* [d for devices in found_devices for d in devices if d]: a device object
\* is truthy, a None among found_devices cannot be iterated
RECURSIVE flatten(_)
flatten(found_devices) ==
    IF Len(found_devices) = 0 THEN <<>>
    ELSE found_devices[1].list \o flatten(Tail(found_devices))

\* line 40-41: the coroutines are created and gathered
RefreshAllDevices ==
    /\ device_finders.pc \in {"idle", "done", "raised"}
    /\ device_finders' =
         [device_finders EXCEPT !.pc = "gather", !.error = "none",
            !.task = [f \in Finders |-> [NewFinderTask EXCEPT !.pc = "find"]]]
    /\ UNCHANGED <<mainVars, earlierVars, web_devices, upnp_notify, callback_data, laterVars>>

\* line 35: finder.find() returns in time, the coroutine returns its list
FindReturns(f, devices) ==
    /\ device_finders.task[f].pc = "find"
    /\ device_finders' =
         [device_finders EXCEPT !.task[f] = [pc |-> "returned", value |-> ListValue(devices),
                                             cause |-> "none"]]
    /\ UNCHANGED <<mainVars, earlierVars, web_devices, upnp_notify, callback_data, laterVars>>

\* line 34: request_timeout + 1 seconds pass; async_timeout cancels the
\* task and its context manager raises asyncio.TimeoutError in place of the
\* CancelledError, which `except asyncio.CancelledError` does not catch
FindTimesOut(f) ==
    /\ device_finders.task[f].pc = "find"
    /\ device_finders' =
         [device_finders EXCEPT !.task[f] = [pc |-> "raised", value |-> NoneValue,
                                             cause |-> "timeout"]]
    /\ UNCHANGED <<mainVars, earlierVars, web_devices, upnp_notify, callback_data, laterVars>>

\* line 36-37: finder.find() is cancelled; the CancelledError is caught and
\* the coroutine falls off its end, returning None
FindCancelled(f) ==
    /\ device_finders.task[f].pc = "find"
    /\ device_finders' =
         [device_finders EXCEPT !.task[f] = [pc |-> "returned", value |-> NoneValue,
                                             cause |-> "cancelled"]]
    /\ UNCHANGED <<mainVars, earlierVars, web_devices, upnp_notify, callback_data, laterVars>>

\* line 41: asyncio.gather propagates the first exception of a coroutine to
\* refresh_all_devices at once
GatherRaises ==
    /\ device_finders.pc = "gather"
    /\ \E f \in Finders : device_finders.task[f].pc = "raised"
    /\ device_finders' = [device_finders EXCEPT !.pc = "raised", !.error = "TimeoutError"]
    /\ UNCHANGED <<mainVars, earlierVars, web_devices, upnp_notify, callback_data, laterVars>>

\* line 41-42: every coroutine returned; the results are concatenated in
\* the finders' order, or the comprehension raises TypeError on a None
GatherReturns ==
    /\ device_finders.pc = "gather"
    /\ \A f \in Finders : device_finders.task[f].pc = "returned"
    /\ LET found_devices == [f \in Finders |-> device_finders.task[f].value]
       IN device_finders' =
            IF \E f \in Finders : found_devices[f] = NoneValue
            THEN [device_finders EXCEPT !.pc = "raised", !.error = "TypeError"]
            ELSE [device_finders EXCEPT !.pc = "done",
                                        !._devices = flatten(found_devices)]
    /\ UNCHANGED <<mainVars, earlierVars, web_devices, upnp_notify, callback_data, laterVars>>

NextFinders ==
    \/ RefreshAllDevices
    \/ \E f \in Finders : \E devices \in FindResults(f) : FindReturns(f, devices)
    \/ \E f \in Finders : FindTimesOut(f)
    \/ \E f \in Finders : FindCancelled(f)
    \/ GatherRaises
    \/ GatherReturns

SpecFinders == InitFinders /\ [][NextFinders]_vars

\* ========================================================== web devices
\* One WebDeviceFinder: its registry _devices (remote token -> WebDevice),
\* the WebDevice objects created by the register handler, and a clock.  A
\* WebDevice object lives on in the session that selected it after it has
\* left the registry, so play, stop and on_close act on objects while poll
\* and find act on the registry.  since records, per object, the latest of
\* play/stop/poll on it, a play by its url; seen is the time of its
\* registration or of the latest poll for it; last is the answer of the
\* latest HTTP request or find().
MaxWebDevices == 2
MaxWebToken == 1
MaxTime == 2
RequestTimeout == 1

\* the values secret_token() returns to the register handler
WebTokens == {k \in secret_token : k <= MaxWebToken}

WebObjects == 1..MaxWebDevices
Urls == {"url1", "url2"}
NoUrl == "None"

NewWebDevice(token, now) ==
    [_remote_token |-> token, _url_to_play |-> NoUrl,
     _manipulation_timestamp |-> now, since |-> "new", seen |-> now]

\* an HTTP answer, and the list find() returns
Response(status, body) == [status |-> status, body |-> body, found |-> {}]
Found(devices) == [status |-> 0, body |-> NoUrl, found |-> devices]

InitWeb ==
    /\ InitMain
    /\ session_table = Unused
    /\ admission = Unused
    /\ block_pump = Unused
    /\ playing_video = Unused
    /\ async_debounce = Unused
    /\ range_request = Unused
    /\ token_string = Unused
    /\ responses = Unused
    /\ device_finders = Unused
    /\ upnp_notify = Unused
    /\ callback_data = Unused
    /\ web_devices = [now |-> 0, _devices |-> <<>>, object |-> <<>>,
                      last |-> Found({})]

\* time.time() advances
WebTick ==
    /\ web_devices.now < MaxTime
    /\ web_devices' = [web_devices EXCEPT !.now = @ + 1]
    /\ UNCHANGED <<mainVars, earlierVars, device_finders, upnp_notify, callback_data, laterVars>>

\* WebDeviceApiRequestRegisterDevice.handle
WebRegister(password_ok, remote_token) ==
    /\ Len(web_devices.object) < MaxWebDevices
    /\ LET w == web_devices
           d == Len(w.object) + 1
       IN web_devices' =
            IF ~password_ok
            THEN [w EXCEPT !.last = Response(403, NoUrl)]
            ELSE [w EXCEPT !._devices = Put(@, remote_token, d),
                           !.object = Append(@, NewWebDevice(remote_token, w.now)),
                           !.last = Response(200, NoUrl)]
    /\ UNCHANGED <<mainVars, earlierVars, device_finders, upnp_notify, callback_data, laterVars>>

\* WebDevice.play
WebPlay(d, url) ==
    /\ d \in 1..Len(web_devices.object)
    /\ web_devices' = [web_devices EXCEPT !.object[d]._url_to_play = url,
                                          !.object[d].since = url]
    /\ UNCHANGED <<mainVars, earlierVars, device_finders, upnp_notify, callback_data, laterVars>>

\* WebDevice.stop
WebStop(d) ==
    /\ d \in 1..Len(web_devices.object)
    /\ web_devices' = [web_devices EXCEPT !.object[d]._url_to_play = NoUrl,
                                          !.object[d].since = "stop"]
    /\ UNCHANGED <<mainVars, earlierVars, device_finders, upnp_notify, callback_data, laterVars>>

\* WebDevice.on_close
WebOnClose(d) ==
    /\ d \in 1..Len(web_devices.object)
    /\ web_devices' = [web_devices EXCEPT
                         !._devices = Del(@, web_devices.object[d]._remote_token)]
    /\ UNCHANGED <<mainVars, earlierVars, device_finders, upnp_notify, callback_data, laterVars>>

\* a get_url_to_play that leaves the url in place
get_url_to_play_keeps(w, d) == w

\* WebDevice.get_url_to_play, after the value was read
get_url_to_play(w, d) == [w EXCEPT !.object[d]._url_to_play = NoUrl]

\* WebDevice.manipulate_timestamp, after the old value was read
manipulate_timestamp(w, d) == [w EXCEPT !.object[d]._manipulation_timestamp = w.now]

\* the paths a poll may carry: a decimal number, or "deadbeef"
PollPaths == {str_int(k) : k \in WebTokens} \cup {DeadBeef}

\* WebDeviceApiRequestPoll.handle
WebPoll(raw) ==
    /\ LET w == web_devices
       IN web_devices' =
            IF ~isdigit(raw)
            THEN [w EXCEPT !.last = Response(400, NoUrl)]
            ELSE LET remote_token == int_str(raw)
                 IN IF remote_token \notin DOMAIN w._devices
                    THEN [w EXCEPT !.last = Response(404, NoUrl)]
                    ELSE LET d == w._devices[remote_token]
                             url_to_play == w.object[d]._url_to_play
                             polled == [get_url_to_play(manipulate_timestamp(w, d), d)
                                          EXCEPT !.object[d].since = "poll",
                                                 !.object[d].seen = w.now]
                         IN IF url_to_play = NoUrl
                            THEN [polled EXCEPT !.last = Response(302, NoUrl)]
                            ELSE [polled EXCEPT !.last = Response(200, url_to_play)]
    /\ UNCHANGED <<mainVars, earlierVars, device_finders, upnp_notify, callback_data, laterVars>>

\* WebDeviceFinder.find: every registered device has its timestamp read and
\* set to now; those whose old timestamp is before now - request_timeout
\* leave the registry; the rest is the result
WebFind ==
    /\ LET w == web_devices
           min_timestamp == w.now - RequestTimeout
           expired == {k \in DOMAIN w._devices :
                         w.object[w._devices[k]]._manipulation_timestamp < min_timestamp}
           kept == [k \in DOMAIN w._devices \ expired |-> w._devices[k]]
       IN web_devices' =
            [w EXCEPT !._devices = kept,
                      !.last = Found({kept[k] : k \in DOMAIN kept}),
                      !.object = [d \in DOMAIN w.object |->
                                    IF \E k \in DOMAIN w._devices : w._devices[k] = d
                                    THEN [w.object[d] EXCEPT !._manipulation_timestamp = w.now]
                                    ELSE w.object[d]]]
    /\ UNCHANGED <<mainVars, earlierVars, device_finders, upnp_notify, callback_data, laterVars>>

NextWeb ==
    \/ WebTick
    \/ \E password_ok \in BOOLEAN, remote_token \in WebTokens :
         WebRegister(password_ok, remote_token)
    \/ \E d \in WebObjects, url \in Urls : WebPlay(d, url)
    \/ \E d \in WebObjects : WebStop(d)
    \/ \E d \in WebObjects : WebOnClose(d)
    \/ \E raw \in PollPaths : WebPoll(raw)
    \/ WebFind

SpecWeb == InitWeb /\ [][NextWeb]_vars

\* ====================================================== UPnP notifications
\* One UpnpNotifyServer and one UpnpDevice that plays one LocalToken.
\* play() registers a DeviceStatus under the token it is given and
\* subscribes the device to /upnp/notify/{local_token}; the device then
\* sends NOTIFY requests there.  A dict key is an int or a LocalToken.
\* phase follows the events the device has sent for the token since play()
\* or the last Play re-issued: 0 none, 1 a PLAYING, 2 an ERROR after it.
MaxReconnects == 2
MaxVals == 2
MaxLoops == 3

IntKey(n) == [type |-> "int", message_id |-> 0, token |-> n]
TokenKey(t) == [type |-> "LocalToken", message_id |-> t.message_id, token |-> t.token]

\* hash() of a dict key
key_hash(k) == IF k.type = "int" THEN k.token ELSE token_hash(k)

\* stored == probe, as the dict evaluates it: int.__eq__ between ints,
\* LocalToken.__eq__ (utils.py:22-23) as soon as one side is a LocalToken
stored_key_eq(stored, probe) ==
    IF stored.type = "int" /\ probe.type = "int" THEN stored.token = probe.token
    ELSE /\ stored.type = "LocalToken"
         /\ probe.type = "LocalToken"
         /\ key_hash(stored) = key_hash(probe)

\* the TransportStatus values of one NOTIFY body, in document order
StatusVals == {"OK", "STOPPED", "ERROR_OCCURRED"}
RECURSIVE SeqsUpTo(_, _)
SeqsUpTo(S, n) ==
    IF n = 0 THEN {<<>>}
    ELSE SeqsUpTo(S, n - 1) \cup {Append(q, x) : q \in SeqsUpTo(S, n - 1), x \in S}
NotifyBodies == SeqsUpTo(StatusVals, MaxVals)

\* _player_status
RECURSIVE _player_status_from(_, _)
_player_status_from(vals, reach_ok) ==
    IF Len(vals) = 0 THEN (IF reach_ok THEN "PLAYING" ELSE "NOTHING")
    ELSE IF vals[1] = "STOPPED" THEN "STOPPED"
    ELSE IF vals[1] = "ERROR_OCCURRED" THEN "ERROR"
    ELSE _player_status_from(Tail(vals), reach_ok \/ vals[1] = "OK")

_player_status(vals) == _player_status_from(vals, FALSE)

InitUpnp ==
    /\ InitMain
    /\ session_table = Unused
    /\ admission = Unused
    /\ block_pump = Unused
    /\ playing_video = Unused
    /\ async_debounce = Unused
    /\ range_request = Unused
    /\ token_string = Unused
    /\ responses = Unused
    /\ device_finders = Unused
    /\ web_devices = Unused
    /\ callback_data = Unused
    /\ \E m \in Halves, k \in Halves \ {0} :
         upnp_notify = [local_token |-> LocalToken(m, k, k), _devices |-> {},
                        subscribe_path |-> <<>>, subscribed |-> FALSE,
                        loops |-> 0,
                        reconnects |-> 0, phase |-> 0, last |-> 0]

\* UpnpNotifyServer.add_device: self._devices[local_token] = device
add_device(devices, device, key) ==
    {e \in devices : ~stored_key_eq(e.key, key)}
      \cup {[key |-> key, playing |-> device.playing, errored |-> device.errored]}

\* UpnpNotifyServer.remove_device
remove_device(devices, key) == {e \in devices : ~stored_key_eq(e.key, key)}

\* UpnpDevice.play(url, title, local_token), called by PlayingVideo.play
\* with the session's LocalToken (video.py:177).  self._subscribe_task is
\* replaced by a new SubscribeTask, whose start() closes only itself (its
\* _task is None) and creates one more _loop task; subscribed tells that the
\* _task of the current SubscribeTask is set, loops counts the _loop tasks
\* that were created and not cancelled.
UpnpPlay ==
    /\ upnp_notify.loops < MaxLoops
    /\ LET u == upnp_notify
       IN upnp_notify' =
            [u EXCEPT !._devices = add_device(@, [playing |-> FALSE, errored |-> FALSE],
                                              TokenKey(u.local_token)),
                      !.subscribe_path = token_str(u.local_token),
                      !.subscribed = TRUE,
                      !.loops = @ + 1,
                      !.phase = 0]
    /\ UNCHANGED <<mainVars, earlierVars, device_finders, web_devices, callback_data, laterVars>>

\* UpnpDevice.on_close(local_token), called by PlayingVideo.close:
\* SubscribeTask.close of the current SubscribeTask cancels its _task
UpnpOnClose ==
    /\ LET u == upnp_notify
       IN upnp_notify' =
            [u EXCEPT !._devices = remove_device(@, TokenKey(u.local_token)),
                      !.subscribed = FALSE,
                      !.loops = IF u.subscribed THEN @ - 1 ELSE @]
    /\ UNCHANGED <<mainVars, earlierVars, device_finders, web_devices, callback_data, laterVars>>

\* the phase after the device has sent one more event
NextPhase(phase, status) ==
    IF status = "PLAYING" /\ phase = 0 THEN 1
    ELSE IF status = "ERROR" /\ phase = 1 THEN 2
    ELSE IF status = "NOTHING" /\ phase = 2 THEN 0
    ELSE phase

\* UpnpNotifyServer.handle for a NOTIFY the subscribed device sends to its
\* callback url
UpnpNotify(vals) ==
    /\ upnp_notify.subscribed
    /\ upnp_notify.reconnects < MaxReconnects
    /\ LET u == upnp_notify
           local_token_raw == u.subscribe_path
           status == _player_status(vals)
           sent == [u EXCEPT !.phase = NextPhase(@, status)]
       IN upnp_notify' =
            IF ~isdigit(local_token_raw)
            THEN [sent EXCEPT !.last = 400]
            ELSE LET local_token == IntKey(int_str(local_token_raw))
                     hits == {e \in u._devices : stored_key_eq(e.key, local_token)}
                 IN IF hits = {}
                    THEN [sent EXCEPT !.last = 403]
                    ELSE LET device == CHOOSE e \in hits : TRUE
                             playing == device.playing \/ status = "PLAYING"
                             errored == device.errored \/ (status = "ERROR" /\ playing)
                             reconnect == errored /\ status = "NOTHING"
                             updated == [device EXCEPT
                                           !.playing = IF reconnect THEN FALSE ELSE playing,
                                           !.errored = IF reconnect THEN FALSE ELSE errored]
                         IN [sent EXCEPT
                               !._devices = (@ \ {device}) \cup {updated},
                               !.reconnects = IF reconnect THEN @ + 1 ELSE @,
                               !.last = 200]
    /\ UNCHANGED <<mainVars, earlierVars, device_finders, web_devices, callback_data, laterVars>>

NextUpnp ==
    \/ UpnpPlay
    \/ UpnpOnClose
    \/ \E vals \in NotifyBodies : UpnpNotify(vals)

SpecUpnp == InitUpnp /\ [][NextUpnp]_vars

\* ============================================================ callback data
\* The data string of an inline button, generated by gen_data and read back
\* by parse_data.  A string is the sequence of its characters: 0..15 are
\* the characters 0..9 and a..f (so the prefixes c and d are 12 and 13),
\* and the other characters that occur have the codes below.
Colon == 16
Letter_s == 17
Letter_P == 18
Letter_T == 19
Space == 20

Prefixes == {12, 13, Letter_s}

\* an action name, and device names: "TP", "T 1", "T:1" and "::1"
Payloads == {<<Letter_P>>, <<Letter_T, Letter_P>>, <<Letter_T, Space, 1>>,
             <<Letter_T, Colon, 1>>, <<Colon, Colon, 1>>}

\* str.count(ch)
RECURSIVE count(_, _)
count(data, ch) ==
    IF Len(data) = 0 THEN 0
    ELSE (IF data[1] = ch THEN 1 ELSE 0) + count(Tail(data), ch)

\* str.split(ch): the fields between the occurrences of ch
RECURSIVE split(_, _)
split(data, ch) ==
    IF \A i \in 1..Len(data) : data[i] # ch THEN <<data>>
    ELSE LET i == CHOOSE i \in 1..Len(data) :
                    data[i] = ch /\ \A j \in 1..(i - 1) : data[j] # ch
         IN <<SubSeq(data, 1, i - 1)>> \o split(SubSeq(data, i + 1, Len(data)), ch)

\* the characters int(s, 16) accepts
ishex(s) == Len(s) > 0 /\ \A i \in 1..Len(s) : s[i] \in 0..15

\* button.py:210-211
gen_data(prefix, local_token, payload) ==
    <<prefix, Colon>> \o token_str(local_token) \o <<Colon>> \o payload

\* the old format {prefix}:{message_id}:{token}:{payload}
old_data(prefix, local_token, payload) ==
    <<prefix, Colon>> \o str_int(local_token.message_id) \o <<Colon>>
      \o str_int(local_token.token) \o <<Colon>> \o payload

Parsed(prefix, local_token, payload) ==
    [error |-> "none", prefix |-> prefix, local_token |-> local_token, payload |-> payload]

Raised(error) ==
    [error |-> error, prefix |-> 0, local_token |-> NoToken, payload |-> <<>>]

\* LocalToken(message_id, token) on two strings: int(message_id), and
\* int(token or secret_token()), the empty string being falsy
LocalTokenOfStrings(message_id, token, secret) ==
    [message_id |-> int_str(message_id),
     token |-> IF Len(token) = 0 THEN secret ELSE int_str(token)]

\* button.py:214-222
parse_data(data, secret) ==
    IF count(data, Colon) = 3
    THEN LET fields == split(data, Colon)
         IN IF ~isdigit(fields[2]) \/ ~(Len(fields[3]) = 0 \/ isdigit(fields[3]))
            THEN Raised("ValueError")
            ELSE Parsed(fields[1][1], LocalTokenOfStrings(fields[2], fields[3], secret),
                        fields[4])
    ELSE LET fields == split(data, Colon)
         IN IF Len(fields) # 3 \/ ~ishex(fields[2])
            THEN Raised("ValueError")
            ELSE Parsed(fields[1][1], deserialize(fields[2], secret), fields[3])

InitCallback ==
    /\ InitMain
    /\ session_table = Unused
    /\ admission = Unused
    /\ block_pump = Unused
    /\ playing_video = Unused
    /\ async_debounce = Unused
    /\ range_request = Unused
    /\ token_string = Unused
    /\ responses = Unused
    /\ device_finders = Unused
    /\ web_devices = Unused
    /\ upnp_notify = Unused
    /\ \E prefix \in Prefixes, m \in Halves, k \in Halves \ {0}, payload \in Payloads :
         callback_data = [prefix |-> prefix, local_token |-> LocalToken(m, k, k),
                          payload |-> payload, data |-> <<>>, old |-> <<>>,
                          parsed |-> Raised("unparsed"),
                          old_parsed |-> Raised("unparsed")]

\* Button.get_data: the string of a button of the session
GenData ==
    /\ callback_data.data = <<>>
    /\ LET c == callback_data
       IN callback_data' =
            [c EXCEPT !.data = gen_data(c.prefix, c.local_token, c.payload),
                      !.old = old_data(c.prefix, c.local_token, c.payload)]
    /\ UNCHANGED <<mainVars, earlierVars, device_finders, web_devices, upnp_notify, laterVars>>

\* Button.from_data on the generated string
ParseData(secret) ==
    /\ callback_data.data # <<>>
    /\ callback_data' = [callback_data EXCEPT !.parsed = parse_data(callback_data.data, secret)]
    /\ UNCHANGED <<mainVars, earlierVars, device_finders, web_devices, upnp_notify, laterVars>>

\* Button.from_data on the string of a button in the old format
ParseOldData(secret) ==
    /\ callback_data.data # <<>>
    /\ callback_data' = [callback_data EXCEPT !.old_parsed = parse_data(callback_data.old, secret)]
    /\ UNCHANGED <<mainVars, earlierVars, device_finders, web_devices, upnp_notify, laterVars>>

NextCallback ==
    \/ GenData
    \/ \E secret \in secret_token : ParseData(secret)
    \/ \E secret \in secret_token : ParseOldData(secret)

SpecCallback == InitCallback /\ [][NextCallback]_vars

\* ============================================================ PlayingVideos
\* One PlayingVideos object: its sessions (_playing_videos) and the default
\* device of each user (_user_data).  selected records, per user, the device
\* of the latest select_device() on one of the user's sessions.
NumUsers == 2
MaxSessions == 3

Users == 1..NumUsers
SessionIds == 1..MaxSessions

InitSessions ==
    /\ InitMain
    /\ async_debounce = Unused
    /\ range_request = Unused
    /\ token_string = Unused
    /\ responses = Unused
    /\ device_finders = Unused
    /\ web_devices = Unused
    /\ upnp_notify = Unused
    /\ callback_data = Unused
    /\ admission = Unused
    /\ block_pump = Unused
    /\ playing_video = Unused
    /\ session_table = [_playing_videos |-> EmptyMap, _user_data |-> EmptyMap,
                        selected |-> [u \in Users |-> NoDevice]]

\* PlayingVideos.get_user_device
get_user_device(user_data, user_id) ==
    IF Has(user_data, user_id) THEN user_data[user_id] ELSE NoDevice

\* a set_user_device that stores the device for every user
set_user_device_for_all(user_data, user_id, device) == [u \in Users |-> device]

\* PlayingVideos.set_user_device
set_user_device(user_data, user_id, device) == Put(user_data, user_id, device)

\* PlayingVideos.new_video: `device or self.get_user_device(user_id)`
new_video(st, t, user_id, device) ==
    LET dev == IF device # NoDevice THEN device
               ELSE get_user_device(st._user_data, user_id)
    IN [st EXCEPT !._playing_videos =
          Put(@, t, [user_id |-> user_id, playing_device |-> dev,
                     control_message |-> NoMessage, pending |-> NoMessage])]

\* a video arrives, or a button of a session that is not in the table is
\* clicked: new_video with a device or with None
NewVideo(t, user_id, device) ==
    /\ ~Has(session_table._playing_videos, t)
    /\ session_table' = new_video(session_table, t, user_id, device)
    /\ UNCHANGED <<mainVars, earlierVars, deviceVars, admission, block_pump, playing_video>>

\* PlayingVideo.select_device up to the await of the message edit
SessionSelectDevice(t, device) ==
    /\ Has(session_table._playing_videos, t)
    /\ LET st == session_table
           user_id == st._playing_videos[t].user_id
       IN session_table' =
            [st EXCEPT !._playing_videos[t].playing_device = device,
                       !._playing_videos[t].pending =
                          send_stopped_control_message(device, NoPct),
                       !._user_data = set_user_device(@, user_id, device),
                       !.selected[user_id] = device]
    /\ UNCHANGED <<mainVars, earlierVars, deviceVars, admission, block_pump, playing_video>>

\* create_or_update_control_message: the edit returned
SessionMessageEdited(t) ==
    /\ Has(session_table._playing_videos, t)
    /\ session_table._playing_videos[t].pending # NoMessage
    /\ session_table' =
         [session_table EXCEPT
            !._playing_videos[t].control_message = session_table._playing_videos[t].pending,
            !._playing_videos[t].pending = NoMessage]
    /\ UNCHANGED <<mainVars, earlierVars, deviceVars, admission, block_pump, playing_video>>

\* PlayingVideos.remove
SessionRemove(t) ==
    /\ Has(session_table._playing_videos, t)
    /\ session_table' = [session_table EXCEPT !._playing_videos = Del(@, t)]
    /\ UNCHANGED <<mainVars, earlierVars, deviceVars, admission, block_pump, playing_video>>

NextSessions ==
    \/ \E t \in SessionIds, u \in Users, device \in Devices \cup {NoDevice} :
         NewVideo(t, u, device)
    \/ \E t \in SessionIds, device \in Devices : SessionSelectDevice(t, device)
    \/ \E t \in SessionIds : SessionMessageEdited(t)
    \/ \E t \in SessionIds : SessionRemove(t)

SpecSessions == InitSessions /\ [][NextSessions]_vars

\* ============================================================= PlayingVideo
\* One PlayingVideo object: play(), select_device() and close() called on it,
\* each suspended at its awaits.  played_on is the device that received the
\* latest play(uri, title, token) command; device is the local variable of a
\* running close(); on_close is the latest device.on_close(token) call: the
\* device it went to and the device the latest play command had gone to.
MaxPlays == 2
MaxSelects == 2
MaxCloses == 2

InitVideo ==
    /\ InitMain
    /\ async_debounce = Unused
    /\ range_request = Unused
    /\ token_string = Unused
    /\ responses = Unused
    /\ device_finders = Unused
    /\ web_devices = Unused
    /\ upnp_notify = Unused
    /\ callback_data = Unused
    /\ session_table = Unused
    /\ admission = Unused
    /\ block_pump = Unused
    /\ \E dev \in Devices \cup {NoDevice} :
         playing_video = [playing_device |-> dev, control_message |-> NoMessage,
                          play_pc |-> "idle", close_pc |-> "idle",
                          device |-> NoDevice, played_on |-> NoDevice,
                          on_close |-> [device |-> NoDevice, played_on |-> NoDevice],
                          plays |-> 0, selects |-> 0, closes |-> 0]

\* PlayingVideo.select_device
VideoSelectDevice(device) ==
    /\ playing_video.selects < MaxSelects
    /\ playing_video' =
         [playing_video EXCEPT
            !.playing_device = device,
            !.control_message = send_stopped_control_message(device, NoPct),
            !.selects = @ + 1]
    /\ UNCHANGED <<mainVars, earlierVars, deviceVars, session_table, admission, block_pump>>

\* PlayingVideo.play up to `await self.playing_device.stop()`
VideoPlay ==
    /\ playing_video.play_pc = "idle"
    /\ playing_video.plays < MaxPlays
    /\ playing_video.playing_device # NoDevice
    /\ playing_video' = [playing_video EXCEPT !.play_pc = "stop", !.plays = @ + 1]
    /\ UNCHANGED <<mainVars, earlierVars, deviceVars, session_table, admission, block_pump>>

\* device.stop() returned or raised; on success the play command goes to the
\* device the object has now
VideoStopReturned(ok) ==
    /\ playing_video.play_pc = "stop"
    /\ playing_video' =
         IF ok
         THEN [playing_video EXCEPT !.play_pc = "play",
                                    !.played_on = playing_video.playing_device]
         ELSE [playing_video EXCEPT !.play_pc = "idle"]
    /\ UNCHANGED <<mainVars, earlierVars, deviceVars, session_table, admission, block_pump>>

\* device.play(...) returned or raised; on success the Playing message
VideoPlayReturned(ok) ==
    /\ playing_video.play_pc = "play"
    /\ playing_video' =
         [playing_video EXCEPT
            !.play_pc = "idle",
            !.control_message =
               IF ok THEN send_playing_control_message(playing_video.playing_device)
               ELSE @]
    /\ UNCHANGED <<mainVars, earlierVars, deviceVars, session_table, admission, block_pump>>

\* PlayingVideo.close up to the await of the Stopped message
VideoClose ==
    /\ playing_video.close_pc = "idle"
    /\ playing_video.closes < MaxCloses
    /\ playing_video' =
         [playing_video EXCEPT !.close_pc = "msg",
                               !.device = playing_video.playing_device,
                               !.closes = @ + 1]
    /\ UNCHANGED <<mainVars, earlierVars, deviceVars, session_table, admission, block_pump>>

\* close(): the message was sent, device.on_close(token) is called on the
\* device read at the start; on None the call raises and close() ends
VideoCloseMessageSent ==
    /\ playing_video.close_pc = "msg"
    /\ playing_video' =
         [playing_video EXCEPT
            !.control_message =
               send_stopped_control_message(playing_video.playing_device, 0),
            !.close_pc = IF playing_video.device = NoDevice THEN "idle" ELSE "on_close",
            !.on_close = IF playing_video.device = NoDevice THEN @
                         ELSE [device |-> playing_video.device,
                               played_on |-> playing_video.played_on],
            !.device = IF playing_video.device = NoDevice THEN NoDevice ELSE @]
    /\ UNCHANGED <<mainVars, earlierVars, deviceVars, session_table, admission, block_pump>>

\* device.on_close returned or raised: close() ends
VideoOnCloseReturned ==
    /\ playing_video.close_pc = "on_close"
    /\ playing_video' = [playing_video EXCEPT !.close_pc = "idle", !.device = NoDevice]
    /\ UNCHANGED <<mainVars, earlierVars, deviceVars, session_table, admission, block_pump>>

NextVideo ==
    \/ \E device \in Devices : VideoSelectDevice(device)
    \/ VideoPlay
    \/ \E ok \in BOOLEAN : VideoStopReturned(ok)
    \/ \E ok \in BOOLEAN : VideoPlayReturned(ok)
    \/ VideoClose
    \/ VideoCloseMessageSent
    \/ VideoOnCloseReturned

SpecVideo == InitVideo /\ [][NextVideo]_vars

\* ================================================================ admission
\* The admitted-token dict of one Http object (_tokens), filled by play()
\* through add_remote_token, emptied by the reclamation, and probed by the
\* admission check of GET /stream/{message_id}/{token}.  last is the latest
\* request: its path, its answer (200 standing for a request that passed the
\* admission check) and the message id whose document it is served.
MaxMessageId == 2
MaxAdmitted == 2

MessageIds == 1..MaxMessageId

\* the token values a client can write in a path: wider than secret_token()
PathTokens == 0..(Half * (MaxMessageId + 2) - 1)

NoRequest == [path |-> <<<<>>, <<>>>>, resp |-> 0, served |-> 0]

InitAdmission ==
    /\ InitMain
    /\ async_debounce = Unused
    /\ range_request = Unused
    /\ token_string = Unused
    /\ responses = Unused
    /\ device_finders = Unused
    /\ web_devices = Unused
    /\ upnp_notify = Unused
    /\ callback_data = Unused
    /\ session_table = Unused
    /\ block_pump = Unused
    /\ playing_video = Unused
    /\ admission = [_tokens |-> {}, last |-> NoRequest]

\* `local_token in self._tokens`: the dict finds a key by __hash__ and __eq__
_check_local_token(_tokens, local_token) ==
    \E k \in _tokens : token_eq(k, local_token)

\* a uri that carries the whole hash where the token belongs
stream_uri_hash(local_token) ==
    <<str_int(local_token.message_id), str_int(token_hash(local_token))>>

\* the uri of add_remote_token: /stream/{message_id}/{token}, both decimal
stream_uri(local_token) ==
    <<str_int(local_token.message_id), str_int(local_token.token)>>

\* the paths clients ask for: every pair of decimal numbers, and two with a
\* component that is not decimal
StreamPaths ==
    {<<str_int(m), str_int(t)>> : m \in MessageIds, t \in PathTokens}
      \cup {<<DeadBeef, <<1>>>>, <<<<1>>, DeadBeef>>}

\* play() on the session of message m, whose token secret_token() drew:
\* add_remote_token stores the session under its LocalToken
AdmissionPlay(m, secret) ==
    /\ Cardinality(admission._tokens) < MaxAdmitted
    /\ LET local_token == LocalToken(m, None, secret)
       IN admission' =
            [admission EXCEPT
               !._tokens = IF _check_local_token(@, local_token) THEN @
                           ELSE @ \cup {local_token}]
    /\ UNCHANGED <<mainVars, earlierVars, deviceVars, session_table, block_pump, playing_video>>

\* _timeout_handler: `del self._tokens[local_token]`
AdmissionRemove(local_token) ==
    /\ local_token \in admission._tokens
    /\ admission' = [admission EXCEPT !._tokens = @ \ {local_token}]
    /\ UNCHANGED <<mainVars, earlierVars, deviceVars, session_table, block_pump, playing_video>>

\* _stream_handler up to get_message(local_token.message_id); a component
\* that passed isdigit() is not empty, so LocalToken draws no secret
AdmissionGet(path) ==
    /\ LET local_token == LocalTokenOfStrings(path[1], path[2], 0)
       IN admission' =
            [admission EXCEPT !.last =
               IF ~isdigit(path[1]) \/ ~isdigit(path[2])
               THEN [path |-> path, resp |-> 401, served |-> 0]
               ELSE IF ~_check_local_token(admission._tokens, local_token)
               THEN [path |-> path, resp |-> 403, served |-> 0]
               ELSE [path |-> path, resp |-> 200, served |-> local_token.message_id]]
    /\ UNCHANGED <<mainVars, earlierVars, deviceVars, session_table, block_pump, playing_video>>

NextAdmission ==
    \/ \E m \in MessageIds, secret \in secret_token : AdmissionPlay(m, secret)
    \/ \E local_token \in [message_id : MessageIds, token : secret_token] :
         AdmissionRemove(local_token)
    \/ \E path \in StreamPaths : AdmissionGet(path)

SpecAdmission == InitAdmission /\ [][NextAdmission]_vars

\* =============================================================== block pump
\* The block pump of one /stream response (http.py:301-326) over a source
\* whose get_block returns any number of bytes up to block_size: offset and
\* max_size are the loop's variables, aligned is the offset the loop started
\* at, new_offset the local of the iteration in progress, fetches the number
\* of get_block calls that returned.
MaxFetches == 5

\* ceil(a / b)
Ceil(a, b) == (a + b - 1) \div b

InitBlockPump ==
    /\ InitMain
    /\ async_debounce = Unused
    /\ range_request = Unused
    /\ token_string = Unused
    /\ responses = Unused
    /\ device_finders = Unused
    /\ web_devices = Unused
    /\ upnp_notify = Unused
    /\ callback_data = Unused
    /\ session_table = Unused
    /\ admission = Unused
    /\ playing_video = Unused
    /\ \E size \in 0..MaxDocSize :
         \E aligned \in {a \in 0..size : a % BlockSize = 0} :
           \E max_size \in aligned..size :
             block_pump = [pc |-> "loop", aligned |-> aligned, offset |-> aligned,
                           new_offset |-> aligned, max_size |-> max_size,
                           fetches |-> 0]

\* `while offset < max_size:` then _feed_timeout and the call of get_block,
\* or the end of the loop
BlockLoopHead ==
    /\ block_pump.pc = "loop"
    /\ block_pump' =
         [block_pump EXCEPT !.pc = IF block_pump.offset < block_pump.max_size
                                   THEN "fetch" ELSE "eof"]
    /\ UNCHANGED <<mainVars, earlierVars, deviceVars, session_table, admission, playing_video>>

\* get_block returned a block of len bytes (bot.py:377-399: the bytes of the
\* File the store answered); the transport is looked at (alive: it is there
\* and not closing) and the block is handed to stream.write
BlockFetched(len, alive) ==
    /\ block_pump.pc = "fetch"
    /\ block_pump.fetches < MaxFetches
    /\ block_pump' =
         [block_pump EXCEPT !.new_offset = block_pump.offset + len,
                            !.fetches = @ + 1,
                            !.pc = IF alive THEN "write" ELSE "eof"]
    /\ UNCHANGED <<mainVars, earlierVars, deviceVars, session_table, admission, playing_video>>

\* stream.write returned (`offset = new_offset`) or raised
BlockWritten(ok) ==
    /\ block_pump.pc = "write"
    /\ block_pump' =
         IF ok THEN [block_pump EXCEPT !.offset = block_pump.new_offset, !.pc = "loop"]
         ELSE [block_pump EXCEPT !.pc = "broken"]
    /\ UNCHANGED <<mainVars, earlierVars, deviceVars, session_table, admission, playing_video>>

\* stream.write_eof()
BlockEof ==
    /\ block_pump.pc = "eof"
    /\ block_pump' = [block_pump EXCEPT !.pc = "done"]
    /\ UNCHANGED <<mainVars, earlierVars, deviceVars, session_table, admission, playing_video>>

NextBlockPump ==
    \/ BlockLoopHead
    \/ \E len \in 0..BlockSize, alive \in BOOLEAN : BlockFetched(len, alive)
    \/ \E ok \in BOOLEAN : BlockWritten(ok)
    \/ BlockEof

SpecBlockPump == InitBlockPump /\ [][NextBlockPump]_vars

C2_ClosedOnce ==
    \A t \in Tokens :
        /\ close_calls[t] <= 1
        /\ on_close_calls[t] <= 1
        /\ reclaimed[t] => on_close_calls[t] = 1

\* C3: once the close() of a reclamation has returned, and until play()
\* admits the token again, no close() runs or starts, the device receives no
\* on_close, and every well-formed /stream request for the token is
\* answered 403.
C3_ClosedForGood ==
    [][\A t \in Tokens :
          (reclaimed[t] /\ reclaimed'[t])
          => /\ on_close_calls'[t] = on_close_calls[t]
             /\ close_calls'[t] = close_calls[t]
             /\ ~(/\ Has(stream_debounce', t)
                  /\ stream_debounce'[t].task \in {"close_msg", "close_dev"})
             /\ \A r \in Reqs, start \in RangeStarts :
                  StreamHandler(r, t, TRUE, start)
                  => req'[r].pc = "idle" /\ req'[r].resp = 403]_vars

\* after a reclamation, a request for the reclaimed token was answered 403
C3_Witness ==
    \E t \in Tokens, r \in Reqs :
        /\ reclaimed[t]
        /\ on_close_calls[t] >= 1
        /\ req[r].pc = "idle"
        /\ req[r].token = t
        /\ req[r].resp = 403

\* C4: during idle reclamation the token is removed from the admitted
\* tokens before on_close is invoked: while the device's on_close runs, the
\* token is not admitted and a /stream request for it is answered 403.
C4_RemovedBeforeOnClose ==
    \A t \in Tokens :
        (Has(stream_debounce, t) /\ stream_debounce[t].task = "close_dev")
        => /\ t \notin tokens
           /\ \A r \in Reqs, start \in RangeStarts :
                stream_handler(r, t, TRUE, start).resp = 403

\* C5: when the timer of the debounce of a token expires while a transport
\* registered for the token is not closing, close() is not started, the
\* device gets no on_close, the control message is untouched, no map loses or
\* changes the token's entry, and the debounce sleeps again on the same
\* remembered (token, size).
C5_OpenTransportRearms ==
    [][\A t \in Tokens :
          (/\ TimeoutHandler(t)
           /\ \E tr \in get_stream_transports(t) : transport[tr] = "open")
          => /\ close_calls' = close_calls
             /\ on_close_calls' = on_close_calls
             /\ UNCHANGED <<tokens, downloaded_blocks, stream_transports,
                            sessionVars>>
             /\ DOMAIN stream_debounce' = DOMAIN stream_debounce
             /\ stream_debounce'[t].task = "rearmed"
             /\ stream_debounce'[t].args = stream_debounce[t].args]_vars

\* the debounce of an admitted token was re-armed by its handler while a
\* registered transport is open
C5_Witness ==
    \E t \in tokens :
        /\ Has(stream_debounce, t)
        /\ stream_debounce[t].task = "rearmed"
        /\ \E tr \in get_stream_transports(t) : transport[tr] = "open"

\* C6: when the handler of a firing with no open registered transport has
\* run to its end (it returned, or an exception ended it), the token is in
\* none of the four maps.
C6_ReclaimedEverywhere ==
    [][\A t \in Tokens :
          (\/ \E ok \in BOOLEAN : OnCloseReturned(t, ok)
           \/ /\ CloseMessageSent(t)
              /\ ~(/\ Has(stream_debounce', t)
                   /\ stream_debounce'[t].task = "close_dev")
           \/ TimeoutHandler(t) /\ AllClosing(t) /\ t \notin tokens)
          => /\ t \notin tokens'
             /\ ~Has(downloaded_blocks', t)
             /\ ~Has(stream_transports', t)
             /\ ~Has(stream_debounce', t)]_vars

\* C7: a session at rest whose state is Stopped has no admitted token.
C7_StoppedNotAdmitted ==
    \A t \in Tokens :
        (op[t].pc = "idle" /\ State(t) = "Stopped") => t \notin tokens

\* C8: the state rendered on the control message changes only from Stopped
\* to Playing by play(), from Playing to Paused by pause(), from Paused to
\* Playing by resume(), and from Playing or Paused to Stopped by stop() or
\* by the close() of an idle reclamation.
C8_Transitions ==
    [][\A t \in Tokens :
          LET from == State(t)
              to == State(t)'
              by(kind) == /\ op[t].kind = kind
                          /\ op[t].pc = "msg"
                          /\ op'[t].pc = "idle"
              reclamation == /\ Has(stream_debounce, t)
                             /\ stream_debounce[t].task = "close_msg"
                             /\ op'[t] = op[t]
          IN from # to
             => \/ from = "Stopped" /\ to = "Playing" /\ by("play")
                \/ from = "Playing" /\ to = "Paused" /\ by("pause")
                \/ from = "Paused" /\ to = "Playing" /\ by("resume")
                \/ /\ from \in {"Playing", "Paused"}
                   /\ to = "Stopped"
                   /\ by("stop") \/ reclamation]_vars

\* C9: the log of one play() is a prefix of: admit, device.stop, returned,
\* device.play, returned; device.play is issued only after device.stop
\* returned without error; the token is admitted when device.stop is issued;
\* the Playing message is sent, and the state becomes Playing by play(),
\* only after device.play returned without error.
C9_PlayOrder ==
    [][\A t \in Tokens :
          LET done == <<"admit", "stop", "ok", "play", "ok">>
          IN /\ op'[t].kind = "play"
                => op'[t].cmds \in {<<>>,
                                    <<"admit", "stop">>,
                                    <<"admit", "stop", "err">>,
                                    <<"admit", "stop", "ok", "play">>,
                                    <<"admit", "stop", "ok", "play", "err">>,
                                    done}
             /\ (op'[t].kind = "play" /\ op'[t].cmds = <<"admit", "stop">>
                 /\ op'[t] # op[t])
                => t \in tokens'
             /\ (op'[t].kind = "play" /\ op'[t].msg.kind = "Playing")
                => op'[t].cmds = done
             /\ (op[t].kind = "play" /\ State(t) # "Playing"
                 /\ State(t)' = "Playing")
                => op[t].cmds = done /\ op[t].pc = "msg"]_vars

\* a play() ran to its end: both device commands returned without error and
\* the session is Playing
C9_Witness ==
    \E t \in tokens :
        /\ op[t].kind = "play"
        /\ op[t].result = "Playing"
        /\ op[t].cmds = <<"admit", "stop", "ok", "play", "ok">>
        /\ State(t) = "Playing"

\* C10: pause() on a session whose device has no pause, and resume() on a
\* session whose device has no resume, end with ActionNotSupported, issue no
\* device command, and change neither the control message (so not the
\* state), nor the session's device, nor the four token-keyed maps.
C10_NotSupported ==
    [][\A t \in Tokens, dv \in Devices :
          /\ (PauseStart(t, dv) /\ ~HasPause(dv))
             => /\ op'[t] = Ended("pause", <<>>, "ActionNotSupported")
                /\ playing_device'[t] = dv
                /\ UNCHANGED <<control_message, httpMaps>>
          /\ (ResumeStart(t, dv) /\ ~HasResume(dv))
             => /\ op'[t] = Ended("resume", <<>>, "ActionNotSupported")
                /\ playing_device'[t] = dv
                /\ UNCHANGED <<control_message, httpMaps>>]_vars

\* a pause() or resume() was refused on a device without the capability
C10_Witness ==
    \E t \in Tokens :
        /\ op[t].result = "ActionNotSupported"
        /\ op[t].kind \in {"pause", "resume"}
        /\ playing_device[t] \in Devices
        /\ ~HasPause(playing_device[t])

\* C11: stop() sends the Stopped message with the {DEVICE, PLAY} buttons
\* whether device.stop() returned or raised, and the session is Stopped when
\* it ends; it never ends with the device's failure; it ends with NoDevice
\* exactly when no device is set, and then only after the message edit.
C11_StopAlwaysStops ==
    [][\A t \in Tokens :
          /\ \A ok \in BOOLEAN :
               StopStopReturned(t, ok)
               => /\ op'[t].pc = "msg"
                  /\ op'[t].msg = Message("Controller", playing_device[t], NoPct)
          /\ (op'[t].kind = "stop" /\ op'[t].pc = "idle" /\ op'[t] # op[t])
             => /\ op[t].kind = "stop" /\ op[t].pc = "msg"
                /\ control_message'[t] =
                     Message("Controller", playing_device[t], NoPct)
                /\ State(t)' = "Stopped"
                /\ op'[t].result =
                     IF playing_device[t] = NoDevice THEN "NoDevice" ELSE "Stopped"]_vars

\* a stop() whose device.stop() raised has ended: Stopped was answered and
\* the session is Stopped
C11_Witness ==
    \E t \in Tokens :
        /\ op[t] = Ended("stop", <<"stop", "err">>, "Stopped")
        /\ control_message[t] = Message("Controller", playing_device[t], NoPct)

\* C12: idle reclamation never raises: no failure of device.on_close ends the
\* reclamation handler (the task of the debounce) with an exception.
C12_ReclamationNeverRaises ==
    \A t \in Tokens :
        Has(stream_debounce, t) => stream_debounce[t].task # "failed"

\* C13: update_args(x) immediately followed by update_args(y), the first call
\* not refused, leaves the task made for x cancelled before its timer expired
\* and the task made for y as the current one, sleeping, with arguments y.
\* A task calls the function at most once, with the arguments it was made
\* for, and only when its own timer expires, so the task made for x never
\* calls it and the task made for y, unless a later update_args() cancels it
\* too, calls it once with y.
C13_LastArgsWin ==
    /\ [][\A y \in ArgVals :
            (UpdateArgs(y) /\ async_debounce.last.call = "update_args"
                           /\ async_debounce.last.task # None)
            => LET kx == async_debounce.last.task
                   ky == async_debounce'.task
               IN /\ async_debounce'.tasks[kx].state = "cancelled"
                  /\ Invocations(async_debounce', kx) = {}
                  /\ ky = Len(async_debounce.tasks) + 1
                  /\ async_debounce'.tasks[ky] = [args |-> y, state |-> "sleeping"]
                  /\ async_debounce'.args = y]_vars
    /\ [](\A k \in 1..Len(async_debounce.tasks) :
            /\ Cardinality(Invocations(async_debounce, k)) <= 1
            /\ \A i \in Invocations(async_debounce, k) :
                   async_debounce.calls[i][2] = async_debounce.tasks[k].args
            /\ async_debounce.tasks[k].state = "sleeping"
               => Invocations(async_debounce, k) = {})
    /\ [][\A k \in 1..Len(async_debounce.tasks) :
            (async_debounce.tasks[k].state = "cancelled")
            => /\ async_debounce'.tasks[k] = async_debounce.tasks[k]
               /\ Invocations(async_debounce', k) = Invocations(async_debounce, k)]_vars
    /\ \A k \in 1..MaxTasks :
          (k \in 1..Len(async_debounce.tasks) /\ async_debounce.tasks[k].state = "sleeping")
          ~> (/\ k \in 1..Len(async_debounce.tasks)
              /\ \/ async_debounce.tasks[k].state = "cancelled"
                 \/ Invocations(async_debounce, k) # {})

\* update_args(1) then at once update_args(2), and the function has been
\* called once, by the second task, with 2
C13_Witness ==
    /\ async_debounce # Unused
    /\ Len(async_debounce.tasks) = 2
    /\ async_debounce.tasks[1] = [args |-> 1, state |-> "cancelled"]
    /\ async_debounce.tasks[2].args = 2
    /\ async_debounce.calls = << <<2, 2>> >>

\* C14: an AsyncDebounce never has more than one task in flight (sleeping or
\* running), whatever update_args() and reschedule() calls are made.
C14_OneInFlight ==
    async_debounce # Unused
    => Cardinality(InFlightTasks(async_debounce)) <= 1

\* C15: the percentage handed to close() when the timer finds every
\* registered transport closing is (blocks - d) * 100 / blocks, where
\* blocks = floor(size / block_size) + 1 and d is the number of distinct
\* offsets of blocks written for the token since it was admitted; it lies
\* between 0 and 100.
C15_RemainingPercentage ==
    [][\A t \in Tokens :
          (TimeoutHandler(t) /\ t \in tokens
                             /\ stream_debounce'[t].task = "close_msg")
          => LET blocks == Size \div BlockSize + 1
                 d == Cardinality(written_blocks[t])
             IN /\ stream_debounce'[t].remain = ((blocks - d) * 100) \div blocks
                /\ stream_debounce'[t].remain \in 0..100]_vars

\* C16 as stated: a request with Range: bytes=A-B and B below the document
\* size is answered 400 and no block is fetched.
C16_SmallCapRejected ==
    (/\ range_request # Unused
     /\ range_request.pc \in {"loop", "write", "done"}
     /\ range_request.first # NoCap /\ range_request.last # NoCap
     /\ range_request.last < range_request.size)
    => /\ range_request.status = 400
       /\ range_request.fetched = <<>>

\* C16 amended: a request with Range: bytes=A-B is answered 400, and no block
\* is fetched, when B is above the document size (or A is); with A and B
\* within the document it is accepted (206, or 200 for the whole document)
\* and only blocks that start below B are fetched.
C16_LargeCapRejected ==
    (/\ range_request # Unused
     /\ range_request.pc \in {"loop", "write", "done"}
     /\ range_request.first # NoCap /\ range_request.last # NoCap)
    => LET A == range_request.first
           B == range_request.last
           size == range_request.size
       IN /\ (B > size \/ A > size)
             => range_request.status = 400 /\ range_request.fetched = <<>>
          /\ (B <= size /\ A <= size)
             => /\ range_request.status =
                      IF A = 0 /\ B = size THEN 200 ELSE 206
                /\ \A i \in 1..Len(range_request.fetched) :
                       range_request.fetched[i] < B

C16_Witness ==
    /\ range_request # Unused
    /\ range_request.pc = "done"
    /\ range_request.first = 0
    /\ range_request.last = range_request.size + 1
    /\ range_request.status = 400
    /\ range_request.fetched = <<>>

RECURSIVE BodyBytes(_)
BodyBytes(body) ==
    IF body = <<>> THEN <<>>
    ELSE BodyBytes(SubSeq(body, 1, Len(body) - 1)) \o Bytes(body[Len(body)].sent)

C18_ParseAligns ==
    (/\ range_request # Unused
     /\ range_request.pc = "get_message"
     /\ range_request.first # NoCap)
    => LET q == range_request
       IN /\ q.offset <= q.first
          /\ q.offset % q.block_size = 0
          /\ q.data_to_skip = q.first - q.offset
          /\ 0 <= q.data_to_skip /\ q.data_to_skip < q.block_size
          /\ q.max_size = q.last

C18_Witness ==
    /\ range_request # Unused
    /\ range_request.pc = "get_message"
    /\ range_request.first = 5
    /\ range_request.block_size = 3
    /\ range_request.offset = 3
    /\ range_request.data_to_skip = 2
    /\ range_request.max_size = 4

\* C19: a LocalToken printed with str() and read back with
\* LocalToken.deserialize equals the token that was printed, for every
\* message id and every token part of the width, 0 included.
C19_HexRoundTrip ==
    (token_string # Unused /\ token_string.pc = "read")
    => token_eq(token_string.read, token_string.made)

\* C20 as stated: the low half of the value of a LocalToken is its message
\* id and the high half its token part.
C20_MessageIdLow ==
    (token_string # Unused /\ token_string.pc # "new")
    => /\ token_hash(token_string.made) % Half = token_string.made.message_id
       /\ token_hash(token_string.made) \div Half = token_string.made.token

\* C20 amended: the high half of the value of a LocalToken is its message id
\* and the low half its token part; the printed hex string is that value,
\* and deserialize takes the message id from its high half.
C20_MessageIdHigh ==
    (token_string # Unused /\ token_string.pc # "new")
    => LET t == token_string.made
       IN /\ token_hash(t) \div Half = t.message_id
          /\ token_hash(t) % Half = t.token
          /\ token_string.pc \in {"printed", "read"}
             => int_hex(token_string.text) = token_hash(t)
          /\ token_string.pc = "read"
             => token_string.read.message_id = t.message_id

\* message id 1 and token part 2 print as the hex string of
\* 1 * 2^TokenBits + 2 and read back as themselves
C20_Witness ==
    /\ token_string # Unused
    /\ token_string.pc = "read"
    /\ token_string.made = [message_id |-> 1, token |-> 2]
    /\ token_string.text = str_hex(Half + 2)
    /\ token_string.read = token_string.made

C22_DownloadedBlocksAligned ==
    range_request # Unused
    => \A x \in range_request.downloaded :
           /\ x % range_request.block_size = 0
           /\ 0 <= x \div range_request.block_size
           /\ x \div range_request.block_size
                <= range_request.size \div range_request.block_size

\* a request that starts inside a block has written two blocks
C22_Witness ==
    /\ range_request # Unused
    /\ range_request.pc = "done"
    /\ range_request.block_size = 2
    /\ range_request.first = 3
    /\ range_request.downloaded = {2, 4}

\* C23: with several responses pumping for one token, each response writes
\* at strictly increasing offsets, one block at a time (the block it is
\* writing lies above all it has written); an offset is in the token's
\* downloaded blocks only if the write of that block has returned in some
\* response, and it is added in the step in which that write returns.
C23_WritesInOrder ==
    /\ [](responses # Unused
          => /\ \A p \in Pumps :
                  LET w == responses.pump[p].writes
                  IN /\ \A i \in 1..(Len(w) - 1) : w[i] < w[i + 1]
                     /\ responses.pump[p].pc = "write"
                        => \A i \in 1..Len(w) : w[i] < responses.pump[p].offset
             /\ \A x \in responses.downloaded :
                  \E p \in Pumps : \E i \in 1..Len(responses.pump[p].writes) :
                      responses.pump[p].writes[i] = x)
    /\ [][\A x \in responses'.downloaded \ responses.downloaded :
            \E p \in Pumps :
                /\ PumpWritten(p, TRUE)
                /\ responses.pump[p].offset = x]_vars

\* two responses at work at once: the first has written blocks 0 and 2 while
\* the second, having written block 2, is writing block 4
C23_Witness ==
    /\ responses # Unused
    /\ responses.pump[1].writes = <<0, 2>>
    /\ responses.pump[2].writes = <<2>>
    /\ responses.pump[2].pc = "write"
    /\ responses.pump[2].offset = 4

\* C24: when a finder's find() timed out or was cancelled,
\* refresh_all_devices() completes without error and the cache holds the
\* devices found by the other finders, that finder counting as having found
\* none.
C24_RefreshSurvivesLostFinder ==
    [][(/\ device_finders # Unused
        /\ device_finders.pc = "gather"
        /\ device_finders'.pc # "gather"
        /\ \E f \in Finders : device_finders.task[f].cause \in {"timeout", "cancelled"})
       => /\ device_finders'.pc = "done"
          /\ device_finders'._devices =
               flatten([f \in Finders |->
                          IF device_finders.task[f].cause = "none"
                          THEN device_finders.task[f].value ELSE ListValue(<<>>)])]_vars

\* C25: a poll for a registered web device answers 200 with the url of
\* the latest play() when nothing polled or stopped the device since, and
\* 302 when the latest of play/stop/poll on it is a poll or a stop; a poll
\* for a remote token that is not registered answers 404 and changes
\* neither the registry nor any device.
C25_PollTakesTheUrlOnce ==
    [][\A raw \in PollPaths :
          (web_devices # Unused /\ WebPoll(raw) /\ isdigit(raw))
          => LET w == web_devices
                 remote_token == int_str(raw)
             IN IF remote_token \in DOMAIN w._devices
                THEN LET since == w.object[w._devices[remote_token]].since
                     IN /\ since \in Urls
                           => web_devices'.last = Response(200, since)
                        /\ since \in {"poll", "stop"}
                           => web_devices'.last = Response(302, NoUrl)
                ELSE /\ web_devices'.last = Response(404, NoUrl)
                     /\ web_devices'._devices = w._devices
                     /\ web_devices'.object = w.object]_vars

\* a second device has a url pending while the first has just been polled
\* for the url of its play()
C25_Witness ==
    /\ web_devices # Unused
    /\ Len(web_devices.object) = 2
    /\ DOMAIN web_devices._devices = {0, 1}
    /\ web_devices.last = Response(200, "url2")
    /\ web_devices.object[web_devices._devices[0]].since = "poll"
    /\ web_devices.object[web_devices._devices[0]]._url_to_play = NoUrl
    /\ web_devices.object[web_devices._devices[1]].since = "url1"

\* C26: for a token registered by play(), the notify handler re-issues
\* Play exactly on a NOTHING event that follows an ERROR event that
\* followed a PLAYING event, with no Play re-issued in between.
C26_ReconnectAfterPlayingErrorNothing ==
    [][\A vals \in NotifyBodies :
          (upnp_notify # Unused /\ UpnpNotify(vals))
          => (upnp_notify'.reconnects = upnp_notify.reconnects + 1
              <=> (upnp_notify.phase = 2 /\ _player_status(vals) = "NOTHING"))]_vars

\* C27: for every prefix, message id, token of at least 1 and payload,
\* parse_data accepts the old form and the generated form and yields the
\* same prefix, an equal LocalToken and the same payload for both.
C27_BothFormatsParseAlike ==
    (/\ callback_data # Unused
     /\ callback_data.parsed.error # "unparsed"
     /\ callback_data.old_parsed.error # "unparsed")
    => LET c == callback_data
       IN /\ c.parsed.error = "none"
          /\ c.old_parsed.error = "none"
          /\ c.parsed.prefix = c.old_parsed.prefix
          /\ token_eq(c.parsed.local_token, c.old_parsed.local_token)
          /\ c.parsed.payload = c.old_parsed.payload

\* C28: when a block write fails with a connection error, the handler of
\* that response ends there, the downloaded blocks of the token are what
\* they were (the failed block is not added), and the admitted tokens and
\* the debounces are untouched: an admitted token stays admitted and an
\* armed debounce stays armed.
C28_FailedWriteEndsThePump ==
    [][\A r \in Reqs :
          (Written(r, FALSE) /\ req[r].pc = "write" /\ transport[r] # "open")
          => /\ req'[r].pc = "idle"
             /\ downloaded_blocks' = downloaded_blocks
             /\ written_blocks' = written_blocks
             /\ tokens' = tokens
             /\ stream_debounce' = stream_debounce
             /\ \A t \in tokens :
                  (Has(stream_debounce, t) /\ InSleep(stream_debounce[t]))
                  => (t \in tokens' /\ Has(stream_debounce', t)
                      /\ InSleep(stream_debounce'[t]))]_vars

\* the write of a block that is not yet downloaded is pending on a
\* connection that was closed, for an admitted token with an armed debounce
C28_Witness ==
    \E r \in Reqs :
        /\ req[r].pc = "write"
        /\ transport[r] = "closing"
        /\ req[r].token \in tokens
        /\ Has(stream_debounce, req[r].token)
        /\ InSleep(stream_debounce[req[r].token])
        /\ ~(Has(downloaded_blocks, req[r].token)
             /\ req[r].offset \in downloaded_blocks[req[r].token])

\* C29: the control-message edit of a reclamation renders the "Streaming
\* closed ... {pct}% remains" text with the percentage close() was given,
\* for every percentage from 0 to 100, 0 included.
C29_ClosedTextCarriesPercentage ==
    [][\A t \in Tokens :
          (/\ CloseMessageSent(t)
           /\ Has(stream_debounce, t)
           /\ stream_debounce[t].task = "close_msg")
          => control_message'[t] =
               Message("Closed", stream_debounce[t].device, stream_debounce[t].remain)]_vars

\* C30: play() on a session with no device ends with NoDevice: the token is
\* not admitted, no device command is issued, and the control message, the
\* session state and the maps of the HTTP server are what they were.
C30_PlayWithoutDevice ==
    [][\A t \in Tokens :
          (PlayStart(t, NoDevice) /\ playing_device'[t] = NoDevice)
          => /\ op'[t].result = "NoDevice"
             /\ op'[t].pc = "idle"
             /\ op'[t].cmds = <<>>
             /\ tokens' = tokens
             /\ control_message' = control_message
             /\ State(t)' = State(t)
             /\ UNCHANGED httpMaps]_vars

\* a play() without a device has ended with NoDevice while the token is
\* not admitted
C30_Witness ==
    \E t \in Tokens :
        /\ op[t] = Ended("play", <<>>, "NoDevice")
        /\ playing_device[t] = NoDevice
        /\ t \notin tokens

\* C31: select_device(d) on a session of user u sets the device of that
\* session and the default of u to d and sends the Stopped control message
\* for d; the device of every other session and the default of every other
\* user stay what they were; a session created afterwards for u with no
\* explicit device gets the device u selected last.
C31_SelectDeviceFrame ==
    [][/\ \A t \in SessionIds, d \in Devices :
            (/\ session_table # Unused
             /\ SessionSelectDevice(t, d)
             /\ Has(session_table._playing_videos, t))
            => LET pv == session_table._playing_videos
                   pv2 == session_table'._playing_videos
                   u == pv[t].user_id
               IN /\ pv2[t].playing_device = d
                  /\ get_user_device(session_table'._user_data, u) = d
                  /\ pv2[t].pending = Message("Controller", d, NoPct)
                  /\ DOMAIN pv2 = DOMAIN pv
                  /\ \A x \in DOMAIN pv \ {t} : pv2[x] = pv[x]
                  /\ \A v \in Users \ {u} :
                       get_user_device(session_table'._user_data, v)
                         = get_user_device(session_table._user_data, v)
       /\ \A t \in SessionIds, u \in Users :
            (/\ session_table # Unused
             /\ NewVideo(t, u, NoDevice)
             /\ ~Has(session_table._playing_videos, t)
             /\ session_table.selected[u] # NoDevice)
            => session_table'._playing_videos[t].playing_device
                 = session_table.selected[u]
       /\ \A t \in SessionIds :
            (/\ session_table # Unused
             /\ SessionMessageEdited(t)
             /\ Has(session_table._playing_videos, t)
             /\ session_table._playing_videos[t].pending # NoMessage)
            => session_table'._playing_videos[t].control_message.kind = "Controller"]_vars

\* user 1 selected vlc on session 1 while session 2 of user 2 keeps cast;
\* session 3, created for user 1 with no device, got vlc
C31_Witness ==
    /\ session_table # Unused
    /\ DOMAIN session_table._playing_videos = SessionIds
    /\ session_table.selected = <<"vlc", "cast">>
    /\ session_table._playing_videos[1].user_id = 1
    /\ session_table._playing_videos[1].control_message = Message("Controller", "vlc", NoPct)
    /\ session_table._playing_videos[2].user_id = 2
    /\ session_table._playing_videos[2].playing_device = "cast"
    /\ session_table._playing_videos[3].user_id = 1
    /\ session_table._playing_videos[3].playing_device = "vlc"
    /\ session_table._playing_videos[3].control_message = NoMessage

\* C32: find() removes a registered web device, and leaves it out of its
\* result, exactly when the latest poll for it or its registration is older
\* than now - request_timeout; an earlier find() does not count.
C32_WebDeviceExpires ==
    [][(web_devices # Unused /\ WebFind)
       => LET w == web_devices
          IN \A k \in DOMAIN w._devices :
               LET d == w._devices[k]
                   expired == w.object[d].seen < w.now - RequestTimeout
               IN /\ k \in DOMAIN web_devices'._devices <=> ~expired
                  /\ d \in web_devices'.last.found <=> ~expired]_vars

\* C33: the idle timer never starts the reclamation of a token (close()
\* called) while a /stream response for that token is in its block pump,
\* at the block fetch or at the write, on an open transport.
C33_NoReclaimWhilePumping ==
    [][\A t \in Tokens :
          (/\ TimeoutHandler(t)
           /\ Has(stream_debounce, t)
           /\ InSleep(stream_debounce[t])
           /\ Has(stream_debounce', t)
           /\ stream_debounce'[t].task = "close_msg")
          => ~\E r \in Reqs :
                /\ req[r].token = t
                /\ req[r].pc \in {"get_block", "write"}
                /\ transport[r] = "open"]_vars

\* C34: every token with an entry in the downloaded-block map, the
\* transport map or the debounce map is an admitted token.
C34_MapsOnlyForAdmitted ==
    \A t \in Tokens :
        (Has(downloaded_blocks, t) \/ Has(stream_transports, t) \/ Has(stream_debounce, t))
        => t \in tokens

\* C36: the on_close(token) call of a close() goes to the device that
\* received the latest play command for that token, also when select_device
\* was called on the session after that play
C36_OnCloseToPlayedDevice ==
    (/\ playing_video # Unused
     /\ playing_video.on_close.device # NoDevice
     /\ playing_video.on_close.played_on # NoDevice)
    => playing_video.on_close.device = playing_video.on_close.played_on

\* C37: a request /stream/{m}/{t} with decimal m and t passes the admission
\* check only if a session with message_id m and token t is admitted
C37_AdmissionExact ==
    [][(/\ admission # Unused
        /\ AdmissionGet(admission'.last.path)
        /\ isdigit(admission'.last.path[1])
        /\ isdigit(admission'.last.path[2])
        /\ admission'.last.resp = 200)
       => [message_id |-> int_str(admission'.last.path[1]),
           token |-> int_str(admission'.last.path[2])] \in admission._tokens]_vars

\* C38: a GET on the uri that add_remote_token gave out for an admitted
\* token passes the path check and the admission check and is served the
\* document of the token's message, whatever value secret_token() drew
C38_UriIsServed ==
    [][\A local_token \in [message_id : MessageIds, token : secret_token] :
         (/\ admission # Unused
          /\ local_token \in admission._tokens
          /\ AdmissionGet(stream_uri(local_token)))
         => /\ admission'.last.resp = 200
            /\ admission'.last.served = local_token.message_id]_vars

\* message 2 was played with the token 0 and its uri /stream/2/0 was served
C38_Witness ==
    /\ admission # Unused
    /\ [message_id |-> 2, token |-> 0] \in admission._tokens
    /\ admission.last = [path |-> <<<<2>>, <<0>>>>, resp |-> 200, served |-> 2]

\* C39: a block pump fetches at most ceil((max_size - aligned) / block_size)
\* blocks before it reaches end-of-stream or breaks, whatever lengths between
\* 0 and block_size the fetched blocks have
C39_PumpFetchesBounded ==
    block_pump # Unused
    => block_pump.fetches
         <= Ceil(block_pump.max_size - block_pump.aligned, BlockSize)

\* C40: a UPnP device has at most one event-subscription loop running, and
\* none once on_close has closed the subscription of the latest play,
\* whatever sequence of play() and on_close() calls it received
C40_OneSubscriptionLoop ==
    upnp_notify # Unused
    => /\ upnp_notify.loops <= 1
       /\ ~upnp_notify.subscribed => upnp_notify.loops = 0

\* The program under the scheduling the event loop gives it: a timer that
\* stays armed fires, a handler suspended in an await that returns goes on,
\* a pump whose fetch or write returns goes on.  Requests, button presses and
\* connection losses come from outside and are not forced.
Fairness ==
    /\ \A t \in Tokens : WF_vars(TimeoutHandler(t))
    /\ \A t \in Tokens : WF_vars(CloseMessageSent(t))
    /\ \A t \in Tokens : WF_vars(\E ok \in BOOLEAN : OnCloseReturned(t, ok))
    /\ \A t \in Tokens : WF_vars(\E ok \in BOOLEAN : PlayStopReturned(t, ok))
    /\ \A t \in Tokens : WF_vars(\E ok \in BOOLEAN : PlayPlayReturned(t, ok))
    /\ \A r \in Reqs : WF_vars(\E found \in BOOLEAN : GotMessage(r, found))
    /\ \A r \in Reqs : WF_vars(Prepared(r))
    /\ \A r \in Reqs : WF_vars(GotBlock(r))
    /\ \A r \in Reqs : WF_vars(\E ok \in BOOLEAN : Written(r, ok))
    /\ \A r \in Reqs : WF_vars(WriteEof(r))

SpecFair == Init /\ [][Next]_vars /\ Fairness

\* a GET /stream for token t arrives
RequestArrives(t) ==
    \E r \in Reqs, start \in RangeStarts :
        \E path \in Paths(t) : StreamHandler(r, t, PathDigits(path), start)

\* C35: every token admitted by play() is removed again: unless requests
\* for it keep arriving, it cannot stay admitted for ever from some point on
\* while no /stream response for it is in progress and no operation on it is
\* running, whether the device never opened the stream or an earlier run of
\* the reclamation handler failed
C35_AdmittedEventuallyRemoved ==
    \A t \in Tokens :
        \/ []<>(\/ t \notin tokens
                \/ \E r \in Reqs : req[r].pc # "idle" /\ req[r].token = t
                \/ op[t].pc # "idle")
        \/ []<><<RequestArrives(t)>>_vars
====
